---------------------------- MODULE Spec2Model ----------------------------
(***************************************************************************)
(* One streaming session of the donut gateway: LibAVFFmpegStreamer.Stream  *)
(* (setup of the four prepare stages, the run loop with its bypass,        *)
(* bitstream-filter and transcode paths), the scoped closer, the           *)
(* cancellation token and the sink callbacks of DonutParameters.           *)
(***************************************************************************)
EXTENDS Integers, Sequences, FiniteSets, TLC

\* ------------------------------------------------------------- bounds
\* number of streams the input container may carry
MaxStreams == 2
\* packet DTS values delivered by the container are 0..MaxDTS
MaxDTS == 1
\* number of outputs the native drains (bitstream filter, decoder, filter
\* graph, encoder) may produce, taken together, for one input packet
MaxOut == 4
\* saturation of the history counters kept after the token fired
MaxCount == 2

\* ------------------------------------------------------------ helpers
Min(a, b) == IF a < b THEN a ELSE b

Reverse(s) == [i \in 1..Len(s) |-> s[Len(s) + 1 - i]]

SeqToSet(s) == {s[i] : i \in 1..Len(s)}

NoDup(s) == \A i, j \in 1..Len(s) : i # j => s[i] # s[j]

\* every ordering of a finite set, as sequences (Go's map iteration order)
Perms(S) ==
  {f \in [1..Cardinality(S) -> S] : \A i, j \in 1..Cardinality(S) : i # j => f[i] # f[j]}

RECURSIVE Flatten(_)
Flatten(ss) == IF ss = <<>> THEN <<>> ELSE Head(ss) \o Flatten(Tail(ss))

\* ------------------------------------------------------ program values
MediaTypes == {"video", "audio", "data"}

\* entities.DonutMediaTask, as far as the streamer reads it: the action and
\* whether DonutBitStreamFilter is set
Tasks == [action : {"bypass", "transcode"}, bsf : BOOLEAN]

\* the recipe RecipeFor builds: video bypass through h264_mp4toannexb, audio
\* transcode without bitstream filter
CanonicalRecipe ==
  [video |-> [action |-> "bypass", bsf |-> TRUE],
   audio |-> [action |-> "transcode", bsf |-> FALSE]]

Recipes ==
  { CanonicalRecipe,
    [video |-> [action |-> "bypass", bsf |-> FALSE],
     audio |-> [action |-> "bypass", bsf |-> FALSE]],
    [video |-> [action |-> "transcode", bsf |-> FALSE],
     audio |-> [action |-> "bypass", bsf |-> TRUE]],
    [video |-> [action |-> "transcode", bsf |-> TRUE],
     audio |-> [action |-> "transcode", bsf |-> TRUE]] }

\* which callbacks of DonutParameters are non-nil
AllCallbacks ==
  [OnStream |-> TRUE, OnVideoFrame |-> TRUE, OnAudioFrame |-> TRUE, OnError |-> TRUE]

CallbackSets ==
  { AllCallbacks,
    [AllCallbacks EXCEPT !.OnStream = FALSE],
    [AllCallbacks EXCEPT !.OnVideoFrame = FALSE],
    [AllCallbacks EXCEPT !.OnAudioFrame = FALSE],
    [AllCallbacks EXCEPT !.OnError = FALSE],
    [OnStream |-> FALSE, OnVideoFrame |-> FALSE, OnAudioFrame |-> FALSE, OnError |-> FALSE] }

\* the input containers: up to MaxStreams streams, each of some media type
Inputs == UNION {[1..n -> MediaTypes] : n \in 0..MaxStreams}

\* errors ReadFrame may return
ReadErrors == {"ErrEof", "io.EOF", "context.Canceled", "io.ErrClosedPipe", "EIO"}

\* ctx.Err() once the token is done
CtxErrors == {"context.Canceled", "context.DeadlineExceeded"}

NoPkt == [idx |-> 0, dts |-> 0]

\* the Stream calls that may run at once on the one streamer, and the indices
\* of the audio streams of their inputs
Sessions == {1, 2}

AudioStreams(s) == IF s = 1 THEN {1, 2} ELSE {1}

\* a Stream call that has not begun
NoSession ==
  [audio |-> "none", frameRate |-> 0, at |-> "none", stream |-> 0, dts |-> 0,
   prevLast |-> 0, prevCur |-> 0]

\* StreamInfo has not been called
NoProbe ==
  [pc |-> "none", closer |-> <<>>, allocated |-> <<>>, released |-> <<>>,
   result |-> <<>>, err |-> "nil"]

\* the http.ResponseWriter nothing was written to; handled: the router's
\* errorHandler has looked at what ServeHTTP returned
NoResponse == [status |-> 0, body |-> <<>>, handled |-> FALSE]

WriteHeaderLastWins(w, code, body) == [w EXCEPT !.status = code, !.body = body]

\* w.WriteHeader(code) followed by w.Write(body): the status and body of a
\* response are those of the first WriteHeader, a later one is superfluous
WriteHeader(w, code, body) ==
  IF w.status = 0 THEN [w EXCEPT !.status = code, !.body = body] ELSE w

VARIABLES
  recipe,       \* donut.Recipe (video and audio task)
  cb,           \* which callbacks of donut are non-nil
  input,        \* media type of each stream of the input container
  dtsMax,       \* the packets of the input carry a DTS in 0..dtsMax
  upstreamLive, \* the upstream completes every call that waits for it
  pc,           \* position of Stream
  ctxErr,       \* donut.Ctx.Err(): "none" until the token fires
  closer,       \* release functions registered with the closer, in order
  allocated,    \* native resources allocated, in order
  released,     \* releases run by closer.Close, in order
  streams,      \* p.streams: stream index -> streamContext
  inPkt,        \* the packet of the iteration in progress
  viaBsf,       \* processPacket runs inside applyBitStreamFilter
  budget,       \* outputs the native drains may still produce this iteration
  errors,       \* the errors passed to OnError, in order
  onStreamLog,  \* the stream indices passed to OnStream, in order
  onCloseCalls, \* number of OnClose invocations
  lastSink,     \* stream index and DTS of the last frame given to a sink,
                \* observed in the sessions whose timestamps are (dtsMax > 0)
  failed,       \* the iteration in progress met an error
  exit,         \* why Stream returned: "setup", "ctx", "error", or the
                \* error ReadFrame returned
  newIters,     \* iterations begun after the token fired
  framesAfterCancel, \* frames given to the sinks after the token fired
  pktsAfterCancel,   \* input packets with a frame given to a sink after it
  pktCounted,        \* the packet in progress is counted in pktsAfterCancel
  sinkBusy,          \* sink callbacks that were called and have not returned,
                     \* observed in the sessions whose callbacks take time
  \* the LibAVFFmpegStreamer all sessions share, and what its sessions report
  lastAudioFrameDTS,     \* field of the streamer
  currentAudioFrameSize, \* field of the streamer
  sessions,          \* the Stream calls in progress on the streamer, each
                     \* with its place inside defineAudioDuration
  durLog,            \* the frames given to the sinks with their durations
  crashed,           \* the process has panicked
  encoders,          \* the encoder contexts prepareOutput opened, each with
                     \* the decoder and the recipe it was made from
  frames,            \* the sink invocations with their arguments, each with
                     \* the packet and the stream it was made from
  \* the prober's StreamInfo call, and the inputs opened
  probe,             \* where StreamInfo is, its closer and what it returned
  opens,             \* the arguments of the OpenInput calls made, in order
  response,          \* the HTTP response: the status and body written
  \* the WHEP handler serving one request (ServeHTTP)
  req,          \* entities.RequestParams: StreamURL and StreamID
  probers,      \* DonutEngineParams.Probers, in registration order
  streamers,    \* DonutEngineParams.Streamers, in registration order
  hpc,          \* where ServeHTTP is
  herr,         \* the error ServeHTTP returned: its message and the error
                \* it wraps; nil while it has not returned
  engine,       \* the donutEngine EngineFor returned
  server,       \* serverStreamInfo
  client,       \* clientStreamInfo
  done,         \* the channel done is closed
  calls,        \* the components ServeHTTP invoked, in order
  plans         \* the calls of RecipeFor on the engine: arguments and result

vars == <<recipe, cb, input, dtsMax, upstreamLive, pc, ctxErr, closer, allocated, released,
          streams, inPkt, viaBsf, budget, errors, onStreamLog,
          onCloseCalls, lastSink, failed, exit, newIters,
          framesAfterCancel, pktsAfterCancel, pktCounted, sinkBusy,
          lastAudioFrameDTS, currentAudioFrameSize, sessions, durLog, crashed,
          encoders, frames, probe, opens, response,
          req, probers, streamers, hpc, herr, engine, server, client, done,
          calls, plans>>

handler == <<req, probers, streamers, hpc, herr, engine, server, client, done,
             calls, plans, response>>

\* what no step of Stream changes: the parameters of the call and the state
\* of the handler
streamerState ==
  <<lastAudioFrameDTS, currentAudioFrameSize, sessions, durLog, crashed, encoders,
    frames>>

proberState == <<probe, opens>>

config == <<recipe, cb, input, dtsMax, upstreamLive, streamerState, proberState, handler>>
cancelHist == <<newIters, framesAfterCancel, pktsAfterCancel, pktCounted, sinkBusy>>

\* the state when Stream is called, for a choice of sessions
InitOf(recipes, callbacks, inputs, dtsMaxs, upstreams) ==
  /\ recipe \in recipes
  /\ cb \in callbacks
  /\ input \in inputs
  /\ dtsMax \in dtsMaxs
  /\ upstreamLive \in upstreams
  /\ pc = "prepareInput"
  /\ ctxErr = "none"
  /\ closer = <<>>
  /\ allocated = <<>>
  /\ released = <<>>
  /\ streams = <<>>
  /\ inPkt = NoPkt
  /\ viaBsf = FALSE
  /\ budget = 0
  /\ errors = <<>>
  /\ onStreamLog = <<>>
  /\ onCloseCalls = 0
  /\ lastSink = NoPkt
  /\ failed = FALSE
  /\ exit = "none"
  /\ newIters = 0
  /\ framesAfterCancel = 0
  /\ pktsAfterCancel = 0
  /\ pktCounted = FALSE
  /\ sinkBusy = 0
  /\ lastAudioFrameDTS = 0
  /\ currentAudioFrameSize = 0
  /\ sessions = [s \in Sessions |-> NoSession]
  /\ durLog = <<>>
  /\ crashed = FALSE
  /\ encoders = <<>>
  /\ frames = <<>>
  /\ probe = NoProbe
  /\ opens = <<>>
  /\ response = NoResponse

\* every session, its timestamps left out (each packet has DTS 0)
\* Stream called through the DonutStreamer interface, no request in progress
NoHandler ==
  /\ req = [StreamURL |-> <<>>, StreamID |-> <<>>]
  /\ probers = <<>>
  /\ streamers = <<>>
  /\ hpc = "none"
  /\ herr = <<"nil", "">>
  /\ engine = <<>>
  /\ server = <<>>
  /\ client = <<>>
  /\ done = FALSE
  /\ calls = <<>>
  /\ plans = <<>>

Init == InitOf(Recipes, CallbackSets, Inputs, {0}, {TRUE}) /\ NoHandler

\* the sessions with every callback set, their packets carrying any DTS
DtsInit == InitOf(Recipes, {AllCallbacks}, Inputs, {MaxDTS}, {TRUE}) /\ NoHandler


\* --------------------------------------------------------- the closer
\* astikit.Closer: Add registers a release, Close (deferred by Stream) runs
\* the registered releases last-added first
CloseFirstAddedFirst(c) == c

Close(c) == Reverse(c)

\* LibAVFFmpegStreamer.onError: OnError is invoked when it is non-nil
onError(err) == IF cb.OnError THEN Append(errors, err) ELSE errors

\* ------------------------------------------------- the prepare stages
\* A stage is the list of its effects in program order. "fail" marks a
\* place where the stage may return an error; "alloc" a native allocation;
\* "add" a closer.Add; "put" p.streams[i] = s; "set" a field of the
\* streamContext becoming non-nil; "onStream" an OnStream call.
Alloc(name, i) == [op |-> "alloc", r |-> <<name, i>>, idx |-> i, err |-> ""]
Add(name, i) == [op |-> "add", r |-> <<name, i>>, idx |-> i, err |-> ""]
Fail(e, i) == [op |-> "fail", r |-> <<"", i>>, idx |-> i, err |-> e]
Put(i) == [op |-> "put", r |-> <<"", i>>, idx |-> i, err |-> ""]
Set(f, i) == [op |-> "set", r |-> <<f, i>>, idx |-> i, err |-> ""]
CallOnStream(i) == [op |-> "onStream", r |-> <<"", i>>, idx |-> i, err |-> ""]

\* streamContext, as far as the run loop reads it: the media type of its
\* decoder context and which of encCodecContext, filterGraph, bsfContext
\* are non-nil
NewStreamContext(i) ==
  [media |-> input[i], enc |-> FALSE, filter |-> FALSE, bsf |-> FALSE]

Apply(o, st) ==
  CASE o.op = "alloc" -> [st EXCEPT !.allocated = Append(@, o.r)]
    [] o.op = "add" -> [st EXCEPT !.closer = Append(@, o.r)]
    [] o.op = "put" -> [st EXCEPT !.streams = (o.idx :> NewStreamContext(o.idx)) @@ @]
    [] o.op = "set" ->
         [st EXCEPT !.streams[o.idx] =
            CASE o.r[1] = "enc" -> [@ EXCEPT !.enc = TRUE]
              [] o.r[1] = "filter" -> [@ EXCEPT !.filter = TRUE]
              [] OTHER -> [@ EXCEPT !.bsf = TRUE]]
    [] o.op = "onStream" -> [st EXCEPT !.onStreamLog = Append(@, o.idx)]
    [] OTHER -> st

\* the state after the first n effects of ops
RECURSIVE Exec(_, _, _)
Exec(ops, n, st) == IF n = 0 THEN st ELSE Apply(ops[n], Exec(ops, n - 1, st))

IsAVAny(m) == TRUE

IsAV(m) == m \in {"audio", "video"}

\* the media task of a stream (currentMedia in the source)
TaskOf(m) == IF m = "audio" THEN recipe.audio ELSE recipe.video

\* prepareInput, up to the loop over the input streams
prepareInputHead ==
  << Fail("ffmpeg/libav: input format context is nil", 0),
     Alloc("inputFormatContext", 0), Add("inputFormatContext", 0),
     Fail("ffmpeg/libav: could not find input format", 0),
     Alloc("inputOptions", 0), Add("inputOptions", 0),
     Fail("ffmpeg/libav: opening input failed", 0),
     Alloc("openedInput", 0), Add("openedInput", 0),
     Fail("ffmpeg/libav: finding stream info failed", 0) >>

\* prepareInput, one turn of the loop over the input streams
prepareInputStream(i) ==
  IF ~IsAV(input[i]) THEN <<>>
  ELSE << Fail("ffmpeg/libav: codec is missing", i),
          Fail("ffmpeg/libav: codec context is nil", i),
          Alloc("decCodecContext", i), Add("decCodecContext", i),
          Fail("ffmpeg/libav: updating codec context failed", i),
          Fail("ffmpeg/libav: opening codec context failed", i),
          Alloc("decFrame", i), Add("decFrame", i),
          Put(i) >>
       \o (IF cb.OnStream
           THEN <<CallOnStream(i), Fail("OnStream failed", i)>>
           ELSE <<>>)

prepareOutputStreamEvery(i) ==
  IF i \notin DOMAIN streams THEN <<>>
  ELSE << Alloc("encCodecContext", i), Add("encCodecContext", i), Set("enc", i) >>

\* prepareOutput, one turn of the loop: an encoder for a transcoded stream
prepareOutputStream(i) ==
  IF i \notin DOMAIN streams \/ TaskOf(streams[i].media).action = "bypass" THEN <<>>
  ELSE << Fail("mapper: codec id not found", i),
          Fail("cannot find a libav encoder", i),
          Fail("ffmpeg/libav: codec context is nil", i),
          Alloc("encCodecContext", i), Add("encCodecContext", i), Set("enc", i),
          Fail("opening encoder context failed", i) >>

\* prepareFilters, one turn of the loop: a filter graph for a transcoded stream
prepareFiltersStream(i) ==
  IF TaskOf(streams[i].media).action = "bypass" THEN <<>>
  ELSE << Fail("main: graph is nil", i),
          Alloc("filterGraph", i), Add("filterGraph", i), Set("filter", i),
          Fail("main: outputs is nil", i),
          Alloc("outputs", i), Add("outputs", i),
          Fail("main: inputs is nil", i),
          Alloc("inputs", i), Add("inputs", i),
          Fail("main: buffersrc is nil", i),
          Fail("main: buffersink is nil", i),
          Fail("main: creating buffersrc context failed", i),
          Fail("main: creating buffersink context failed", i),
          Fail("main: parsing filter failed", i),
          Fail("main: configuring filter failed", i),
          Alloc("filterFrame", i), Add("filterFrame", i),
          Alloc("encPkt", i), Add("encPkt", i) >>

\* prepareBitStreamFilters, one turn of the loop
prepareBitStreamFiltersStream(i) ==
  IF ~TaskOf(streams[i].media).bsf THEN <<>>
  ELSE << Fail("can not find the filter", i),
          Fail("error while allocating bit stream context", i),
          Alloc("bsfContext", i), Add("bsfContext", i), Set("bsf", i),
          Fail("error while copying codec parameters", i),
          Fail("error while initiating", i),
          Alloc("bsfPacket", i), Add("bsfPacket", i) >>

prepareInputOps ==
  prepareInputHead \o Flatten([i \in 1..Len(input) |-> prepareInputStream(i)])

\* prepareOutput visits inputFormatContext.Streams() in order
prepareOutputOps == Flatten([i \in 1..Len(input) |-> prepareOutputStream(i)])

\* prepareFilters and prepareBitStreamFilters range over the map p.streams,
\* in an order (ord) Go leaves open
prepareFiltersOps(ord) == Flatten([k \in 1..Len(ord) |-> prepareFiltersStream(ord[k])])

prepareBitStreamFiltersOps(ord) ==
  Flatten([k \in 1..Len(ord) |-> prepareBitStreamFiltersStream(ord[k])])

\* Stream returns: the deferred closer.Close runs
Return(c, why) ==
  /\ pc' = "returned"
  /\ released' = Close(c)
  /\ exit' = why

RunStageUnchecked(ops, next) ==
  \E k \in 0..Len(ops) :
    /\ k > 0 => ops[k].op = "fail"
    /\ LET st == Exec(ops, IF k = 0 THEN Len(ops) ELSE k - 1,
                      [closer |-> closer, allocated |-> allocated,
                       streams |-> streams, onStreamLog |-> onStreamLog])
       IN /\ closer' = st.closer
          /\ allocated' = st.allocated
          /\ streams' = st.streams
          /\ onStreamLog' = st.onStreamLog
          /\ errors' = IF k = 0 THEN errors ELSE onError(ops[k].err)
          /\ pc' = next
          /\ UNCHANGED <<released, exit>>
    /\ UNCHANGED <<config, ctxErr, inPkt, viaBsf, budget, onCloseCalls,
                   lastSink, failed, cancelHist>>

\* One stage of Stream's setup: the stage runs to its end and Stream goes on
\* (k = 0), or it returns its error at the k-th effect, Stream passes the
\* error to onError and returns.
RunStage(ops, next) ==
  \E k \in 0..Len(ops) :
    /\ k > 0 => ops[k].op = "fail"
    /\ LET st == Exec(ops, IF k = 0 THEN Len(ops) ELSE k - 1,
                      [closer |-> closer, allocated |-> allocated,
                       streams |-> streams, onStreamLog |-> onStreamLog])
       IN /\ closer' = st.closer
          /\ allocated' = st.allocated
          /\ streams' = st.streams
          /\ onStreamLog' = st.onStreamLog
          /\ IF k = 0
             THEN /\ pc' = next
                  /\ UNCHANGED <<errors, released, exit>>
             ELSE /\ errors' = onError(ops[k].err)
                  /\ Return(st.closer, "setup")
    /\ UNCHANGED <<config, ctxErr, inPkt, viaBsf, budget, onCloseCalls,
                   lastSink, failed, cancelHist>>

prepareInput ==
  /\ pc = "prepareInput"
  /\ RunStage(prepareInputOps, "prepareOutput")

prepareOutput ==
  /\ pc = "prepareOutput"
  /\ RunStage(prepareOutputOps, "prepareFilters")

prepareFilters ==
  /\ pc = "prepareFilters"
  /\ \E ord \in Perms(DOMAIN streams) :
       RunStage(prepareFiltersOps(ord), "prepareBitStreamFilters")

prepareBitStreamFilters ==
  /\ pc = "prepareBitStreamFilters"
  /\ \E ord \in Perms(DOMAIN streams) :
       RunStage(prepareBitStreamFiltersOps(ord), "allocInPkt")

\* inPkt := astiav.AllocPacket(); closer.Add(inPkt.Free)
allocInPkt ==
  /\ pc = "allocInPkt"
  /\ allocated' = Append(allocated, <<"inPkt", 0>>)
  /\ closer' = Append(closer, <<"inPkt", 0>>)
  /\ pc' = "select"
  /\ UNCHANGED <<config, ctxErr, released, streams, inPkt, viaBsf, budget,
                 errors, onStreamLog, onCloseCalls, lastSink, failed, exit,
                 cancelHist>>

\* ------------------------------------------------------- the run loop
tokenNeverDone == FALSE

\* case <-donut.Ctx.Done(): the token is done
tokenDone == ctxErr # "none"

isCooperativeNever(e) == FALSE

\* errors.Is(donut.Ctx.Err(), context.Canceled)
isCooperative(e) == e = "context.Canceled"

isCleanReadErrorEofOnly(e) == e \in {"ErrEof", "io.EOF"}

\* the read errors on which the loop returns without calling onError
isCleanReadError(e) == e \in {"ErrEof", "io.EOF", "context.Canceled", "io.ErrClosedPipe"}

\* what the steps of an iteration leave alone
loopFrame == <<config, ctxErr, closer, allocated, streams, onStreamLog, onCloseCalls>>

\* Stream goes on at position p with b outputs left to the native drains
goto(p, b) ==
  /\ pc' = p
  /\ budget' = b
  /\ UNCHANGED <<errors, failed, released, exit, viaBsf, inPkt>>

\* Top of an iteration, the select on donut.Ctx.Done(): with the token done
\* Stream returns (reporting ctx.Err() unless it is context.Canceled);
\* otherwise the default branch goes on to ReadFrame.
select ==
  /\ pc = "select"
  /\ IF tokenDone
     THEN /\ errors' = IF isCooperative(ctxErr) THEN errors ELSE onError(ctxErr)
          /\ Return(closer, "ctx")
          /\ UNCHANGED newIters
     ELSE /\ pc' = "ReadFrame"
          /\ newIters' = IF ctxErr # "none" THEN Min(newIters + 1, MaxCount) ELSE newIters
          /\ UNCHANGED <<errors, released, exit>>
  /\ UNCHANGED <<loopFrame, inPkt, viaBsf, budget, lastSink, failed,
                 framesAfterCancel, pktsAfterCancel, pktCounted, sinkBusy>>

\* where Stream goes with the packet it read: skipped when its stream index
\* is not in p.streams, through the bitstream filter when the stream has one,
\* else straight to processPacket
afterRead(idx) ==
  IF idx \notin DOMAIN streams THEN "select"
  ELSE IF streams[idx].bsf THEN "applyBitStreamFilter"
  ELSE "processPacket"

\* p.inputFormatContext.ReadFrame(inPkt) returns, which it does when the
\* upstream has something for it: an error, or a packet of one of the
\* input's streams
ReadFrame ==
  /\ pc = "ReadFrame"
  /\ \/ \E e \in ReadErrors :
          /\ errors' = IF isCleanReadError(e) THEN errors ELSE onError(e)
          /\ failed' = ~isCleanReadError(e)
          /\ Return(closer, e)
          /\ UNCHANGED <<inPkt, budget, pktCounted, viaBsf>>
     \/ \E idx \in 1..Len(input), dts \in 0..dtsMax :
          /\ inPkt' = [idx |-> idx, dts |-> dts]
          /\ budget' = IF idx \in DOMAIN streams THEN MaxOut ELSE 0
          /\ pktCounted' = FALSE
          /\ viaBsf' = FALSE
          /\ pc' = afterRead(idx)
          /\ UNCHANGED <<errors, failed, released, exit>>
  /\ UNCHANGED <<loopFrame, lastSink, newIters, framesAfterCancel, pktsAfterCancel,
                 sinkBusy>>

\* Stream, on an error returned by applyBitStreamFilter or processPacket:
\* c.onError(err, donut); return
streamFails(err) ==
  /\ errors' = onError(err)
  /\ failed' = TRUE
  /\ Return(closer, "error")
  /\ UNCHANGED <<viaBsf, inPkt, budget>>

streamContinuesUnchecked ==
  /\ pc' = "ReadFrame"
  /\ inPkt' = NoPkt
  /\ budget' = 0
  /\ viaBsf' = FALSE
  /\ failed' = FALSE
  /\ UNCHANGED <<errors, released, exit>>

\* Stream, on nil from applyBitStreamFilter or processPacket: inPkt.Unref()
\* and the next iteration
streamContinues ==
  /\ pc' = "select"
  /\ inPkt' = NoPkt
  /\ budget' = 0
  /\ viaBsf' = FALSE
  /\ failed' = FALSE
  /\ UNCHANGED <<errors, released, exit>>

\* applyBitStreamFilter, on the value processPacket returned for one
\* filtered packet: the value is dropped, s.bsfPacket.Unref() and the
\* receive loop goes on
bsfAfterProcess(err, b) ==
  /\ pc' = "bsfReceive"
  /\ budget' = b
  /\ failed' = (failed \/ err # "nil")
  /\ UNCHANGED <<errors, released, exit, viaBsf, inPkt>>

\* processPacket returns err ("nil": no error) to its caller, with b outputs
\* left to the native drains
processReturns(err, b) ==
  IF viaBsf THEN bsfAfterProcess(err, b)
  ELSE IF err = "nil" THEN streamContinues
  ELSE streamFails(err)

\* what is observed of a frame of stream idx given to its sink callback
record(idx) ==
  /\ lastSink' = IF dtsMax > 0 THEN [idx |-> idx, dts |-> inPkt.dts] ELSE lastSink
  /\ framesAfterCancel' =
       IF ctxErr # "none" THEN Min(framesAfterCancel + 1, MaxCount) ELSE framesAfterCancel
  /\ pktsAfterCancel' =
       IF ctxErr # "none" /\ ~pktCounted THEN Min(pktsAfterCancel + 1, MaxCount)
       ELSE pktsAfterCancel
  /\ pktCounted' = (pktCounted \/ ctxErr # "none")

\* a frame of stream idx is given to its sink callback, and the callback
\* returns
deliver(idx) == record(idx) /\ UNCHANGED sinkBusy

noDelivery ==
  UNCHANGED <<lastSink, framesAfterCancel, pktsAfterCancel, pktCounted, sinkBusy>>

hasSinkUnchecked(m) == TRUE

\* the sink callback of a media type is non-nil
hasSink(m) == IF m = "video" THEN cb.OnVideoFrame ELSE cb.OnAudioFrame

\* applyBitStreamFilter, s.bsfContext.SendPacket(pkt): EAGAIN is not an error
applyBitStreamFilter ==
  /\ pc = "applyBitStreamFilter"
  /\ \/ goto("bsfReceive", budget)
     \/ streamFails("sending bit stream packet failed")
  /\ noDelivery
  /\ UNCHANGED <<loopFrame, newIters>>

\* applyBitStreamFilter, one turn of its receive loop
bsfReceive ==
  /\ pc = "bsfReceive"
  /\ \/ \* EOF or EAGAIN: break, return nil
        streamContinues
     \/ streamFails("receiving bit stream packet failed")
     \/ \* a filtered packet: c.processPacket(p, s.bsfPacket, s, donut)
        /\ budget > 0
        /\ budget' = budget - 1
        /\ pc' = "processPacket"
        /\ viaBsf' = TRUE
        /\ UNCHANGED <<errors, failed, released, exit, inPkt>>
  /\ noDelivery
  /\ UNCHANGED <<loopFrame, newIters>>

\* a nil pointer is dereferenced: the panic unwinds Stream, whose deferred
\* closer.Close runs, and nothing recovers it
panics ==
  /\ Return(closer, "panic")
  /\ UNCHANGED <<errors, failed, viaBsf, inPkt, budget>>

\* the arguments of the bypass sink call are evaluated without a panic:
\* c.defineVideoDuration for video; c.defineAudioDuration for audio, which
\* reads s.encCodecContext.SampleRate() of a stream prepareOutput gave no
\* encoder context
bypassArgs(m) == m = "video"

\* processPacket up to its receive loop: a bypassed packet goes to the sink
\* of its media type (when non-nil); a transcoded one to the decoder
processPacket ==
  /\ pc = "processPacket"
  /\ LET s == streams[inPkt.idx]
     IN IF ~IsAV(s.media)
        THEN processReturns("nil", budget) /\ noDelivery
        ELSE IF TaskOf(s.media).action = "bypass"
        THEN IF hasSink(s.media)
             THEN IF bypassArgs(s.media)
                  THEN /\ deliver(inPkt.idx)
                       /\ \/ processReturns("nil", budget)
                          \/ processReturns("sink failed", budget)
                  ELSE panics /\ noDelivery
             ELSE processReturns("nil", budget) /\ noDelivery
        ELSE /\ noDelivery
             /\ \/ goto("decReceive", budget)
                \/ processReturns("sending packet to decoder failed", budget)
  /\ UNCHANGED <<loopFrame, newIters>>

\* processPacket, one turn of the decoder's receive loop; a decoded frame
\* enters filterAndEncode (BuffersrcAddFrame)
decReceive ==
  /\ pc = "decReceive"
  /\ \/ \* EOF or EAGAIN: break, return nil
        processReturns("nil", budget)
     \/ processReturns("receiving frame failed", budget)
     \/ /\ budget > 0
        /\ \/ goto("sinkGet", budget - 1)
           \/ processReturns("adding frame failed", budget - 1)
  /\ noDelivery
  /\ UNCHANGED <<loopFrame, newIters>>

\* filterAndEncode, one turn of the buffersink loop; a filtered frame enters
\* encodeFrame (SendFrame)
sinkGet ==
  /\ pc = "sinkGet"
  /\ \/ \* EOF or EAGAIN: filterAndEncode returns nil
        goto("decReceive", budget)
     \/ processReturns("getting frame failed", budget)
     \/ /\ budget > 0
        /\ \/ goto("encReceive", budget - 1)
           \/ processReturns("sending frame failed", budget - 1)
  /\ noDelivery
  /\ UNCHANGED <<loopFrame, newIters>>

\* encodeFrame, one turn of the encoder's receive loop; an encoded packet is
\* wrapped in RTP and given to the sink of the stream's media type
encReceive ==
  /\ pc = "encReceive"
  /\ \/ \* EOF or EAGAIN: encodeFrame returns nil
        goto("sinkGet", budget) /\ noDelivery
     \/ processReturns("receiving packet failed", budget) /\ noDelivery
     \/ /\ budget > 0
        /\ IF hasSink(streams[inPkt.idx].media)
           THEN \/ processReturns("failed to marshal RTP packet", budget - 1) /\ noDelivery
                \/ /\ deliver(inPkt.idx)
                   /\ \/ goto("encReceive", budget - 1)
                      \/ processReturns("sink failed", budget - 1)
           ELSE goto("encReceive", budget - 1) /\ noDelivery
  /\ UNCHANGED <<loopFrame, newIters>>

\* --------------------------------------- the sink callback, taking time
\* the action of the stream whose packet is in progress
bypassed == TaskOf(streams[inPkt.idx].media).action = "bypass"

callSinkDetached(b) ==
  /\ sinkBusy' = Min(sinkBusy + 1, MaxCount)
  /\ IF bypassed THEN processReturns("nil", b) ELSE goto("encReceive", b)

\* donut.OnVideoFrame(...) / donut.OnAudioFrame(...): Stream calls the sink
\* in its own goroutine and goes on when the callback has returned
callSink(b) ==
  /\ sinkBusy' = sinkBusy + 1
  /\ pc' = "sink"
  /\ budget' = b
  /\ UNCHANGED <<errors, failed, released, exit, viaBsf, inPkt>>

\* processPacket, its bypass branch calling the sink
processPacketCall ==
  /\ pc = "processPacket"
  /\ LET s == streams[inPkt.idx]
     IN IF IsAV(s.media) /\ bypassed /\ hasSink(s.media) /\ bypassArgs(s.media)
        THEN /\ record(inPkt.idx)
             /\ callSink(budget)
             /\ UNCHANGED <<loopFrame, newIters>>
        ELSE processPacket

\* encodeFrame, one turn of the encoder's receive loop, calling the sink
encReceiveCall ==
  /\ pc = "encReceive"
  /\ IF budget > 0 /\ hasSink(streams[inPkt.idx].media)
     THEN /\ \/ goto("sinkGet", budget) /\ noDelivery
             \/ processReturns("receiving packet failed", budget) /\ noDelivery
             \/ processReturns("failed to marshal RTP packet", budget - 1) /\ noDelivery
             \/ record(inPkt.idx) /\ callSink(budget - 1)
          /\ UNCHANGED <<loopFrame, newIters>>
     ELSE encReceive

\* the sink callback returns nil or an error: processPacket returns it
\* (bypass), encodeFrame goes on receiving or returns it (transcode)
sinkReturn ==
  /\ pc = "sink"
  /\ sinkBusy' = sinkBusy - 1
  /\ IF bypassed
     THEN \/ processReturns("nil", budget)
          \/ processReturns("sink failed", budget)
     ELSE \/ goto("encReceive", budget)
          \/ processReturns("sink failed", budget)
  /\ UNCHANGED <<lastSink, framesAfterCancel, pktsAfterCancel, pktCounted>>
  /\ UNCHANGED <<loopFrame, newIters>>

\* ---------------------------------------------------- the environment
\* the session's token fires: cancel() by the handler's collaborators
\* (context.Canceled), or a deadline of the caller's context
Cancel ==
  /\ ctxErr = "none"
  /\ ctxErr' \in CtxErrors
  /\ UNCHANGED <<config, pc, closer, allocated, released, streams, inPkt,
                 viaBsf, budget, errors, onStreamLog, onCloseCalls, lastSink,
                 failed, exit, cancelHist>>

\* the steps of Stream that wait for the upstream: OpenInput and
\* FindStreamInfo inside prepareInput, and ReadFrame
Upstream == prepareInput \/ ReadFrame

\* the steps of Stream that wait for nothing outside the process
StreamStep ==
  \/ prepareOutput \/ prepareFilters \/ prepareBitStreamFilters
  \/ allocInPkt \/ select \/ applyBitStreamFilter \/ bsfReceive
  \/ processPacket \/ decReceive \/ sinkGet \/ encReceive

Next ==
  \/ prepareInput
  \/ prepareOutput
  \/ prepareFilters
  \/ prepareBitStreamFilters
  \/ allocInPkt
  \/ select
  \/ ReadFrame
  \/ applyBitStreamFilter
  \/ bsfReceive
  \/ processPacket
  \/ decReceive
  \/ sinkGet
  \/ encReceive
  \/ Cancel

\* the steps of the sessions whose sink callbacks take time
ChainNext ==
  \/ prepareInput
  \/ prepareOutput
  \/ prepareFilters
  \/ prepareBitStreamFilters
  \/ allocInPkt
  \/ select
  \/ ReadFrame
  \/ applyBitStreamFilter
  \/ bsfReceive
  \/ processPacketCall
  \/ decReceive
  \/ sinkGet
  \/ encReceiveCall
  \/ sinkReturn
  \/ Cancel

Spec == Init /\ [][Next]_vars

\* the sessions over a live upstream and over one that may stall
LiveInit == InitOf({CanonicalRecipe}, {AllCallbacks}, Inputs, {0}, BOOLEAN) /\ NoHandler

\* Stream's local steps are taken when they can be, and so are the calls
\* that wait for the upstream when the upstream is live; the token's owners
\* are under no obligation
LiveSpec ==
  /\ LiveInit
  /\ [][Next]_vars
  /\ WF_vars(StreamStep)
  /\ WF_vars(upstreamLive /\ Upstream)

\* the sessions whose timestamps are observed
DtsSpec == DtsInit /\ [][Next]_vars

\* the sessions of the canonical recipe, with every choice of callbacks,
\* whose deliveries to the sinks are observed (lastSink)
OnStreamInit ==
  InitOf({CanonicalRecipe}, CallbackSets, Inputs, {1}, {TRUE}) /\ NoHandler

OnStreamSpec == OnStreamInit /\ [][Next]_vars

\* the sessions of every recipe with every callback set, timestamps left out
RecipeInit == InitOf(Recipes, {AllCallbacks}, Inputs, {0}, {TRUE}) /\ NoHandler

RecipeSpec == RecipeInit /\ [][Next]_vars

\* the sessions of the canonical recipe whose sink callbacks take time
ChainInit ==
  InitOf({CanonicalRecipe}, {AllCallbacks}, Inputs, {1}, {TRUE}) /\ NoHandler

ChainSpec == ChainInit /\ [][ChainNext]_vars

\* ------------------------------------------- the request and its engine
\* Go strings are sequences of characters
lowerOf(c) ==
  CASE c = "R" -> "r" [] c = "T" -> "t" [] c = "M" -> "m" [] c = "P" -> "p"
    [] c = "S" -> "s" [] OTHER -> c

\* strings.ToLower
ToLower(s) == [i \in 1..Len(s) |-> lowerOf(s[i])]

\* strings.Contains
Contains(s, sub) ==
  \E i \in 0..(Len(s) - Len(sub)) : SubSeq(s, i + 1, i + Len(sub)) = sub

rtmp == <<"r", "t", "m", "p">>
srt == <<"s", "r", "t">>

\* the values of Config.DefaultStreamURL the handler may be started with:
\* "", "rtmp://h", "RTMP://h", "srt://h:9", "Srt://h:9", "http://e",
\* "srt://rtmp:9", "h/srt"
StreamURLs ==
  { <<>>,
    rtmp \o <<":", "/", "/", "h">>,
    <<"R", "T", "M", "P", ":", "/", "/", "h">>,
    srt \o <<":", "/", "/", "h", ":", "9">>,
    <<"S", "r", "t", ":", "/", "/", "h", ":", "9">>,
    <<"h", "t", "t", "p", ":", "/", "/", "e">>,
    srt \o <<":", "/", "/">> \o rtmp \o <<":", "9">>,
    <<"h", "/">> \o srt }

\* the values of Config.DefaultStreamID: "" and "id"
StreamIDs == { <<>>, <<"i", "d">> }

Requests == [StreamURL : StreamURLs, StreamID : StreamIDs]

isRTMP(r) == Contains(ToLower(r.StreamURL), rtmp)
isSRT(r) == Contains(ToLower(r.StreamURL), srt)

ValidURLOnly(r) ==
  IF r.StreamURL = <<>> THEN "ErrMissingStreamURL"
  ELSE IF ~(isRTMP(r) \/ isSRT(r)) THEN "ErrUnsupportedStreamURL"
  ELSE "nil"

\* RequestParams.Valid (the handler passes &params, never nil)
Valid(r) ==
  IF r.StreamID = <<>> THEN "ErrMissingStreamID"
  ELSE IF r.StreamURL = <<>> THEN "ErrMissingStreamURL"
  ELSE IF ~(isRTMP(r) \/ isSRT(r)) THEN "ErrUnsupportedStreamURL"
  ELSE "nil"

\* An implementation registered in the "probers" or "streamers" group: the
\* built-in LibAVFFmpeg / LibAVFFmpegStreamer, or another implementation of
\* the interface, whose answer to Match for the request is `accepts`.
Implementations ==
  { [impl |-> "libav", accepts |-> FALSE],
    [impl |-> "other", accepts |-> TRUE],
    [impl |-> "other", accepts |-> FALSE] }

\* at most this many implementations are registered in a group
MaxRegistered == 2

Registries == UNION {[1..n -> Implementations] : n \in 0..MaxRegistered}

MatchByScheme(p, r) ==
  IF p.impl = "libav"
  THEN \/ Len(r.StreamURL) >= 4 /\ SubSeq(ToLower(r.StreamURL), 1, 4) = rtmp
       \/ Len(r.StreamURL) >= 3 /\ SubSeq(ToLower(r.StreamURL), 1, 3) = srt
  ELSE p.accepts

\* DonutProber.Match / DonutStreamer.Match
Match(p, r) == IF p.impl = "libav" THEN isRTMP(r) \/ isSRT(r) ELSE p.accepts

RECURSIVE selectLast(_, _, _)
selectLast(reg, r, i) ==
  IF i > Len(reg) THEN 0
  ELSE LET rest == selectLast(reg, r, i + 1)
       IN IF rest # 0 THEN rest ELSE IF Match(reg[i], r) THEN i ELSE 0

\* selectProberFor / selectStreamerFor: the loop over the registered
\* implementations from position i; 0 is nil
RECURSIVE selectFor(_, _, _)
selectFor(reg, r, i) ==
  IF i > Len(reg) THEN 0
  ELSE IF Match(reg[i], r) THEN i
  ELSE selectFor(reg, r, i + 1)

\* DonutEngineController.EngineFor
EngineFor(r) ==
  LET prober == selectFor(probers, r, 1)
      streamer == selectFor(streamers, r, 1)
  IN IF prober = 0 THEN [err |-> "ErrMissingProber", prober |-> 0, streamer |-> 0]
     ELSE IF streamer = 0
          THEN [err |-> "ErrMissingStreamer", prober |-> 0, streamer |-> 0]
          ELSE [err |-> "nil", prober |-> prober, streamer |-> streamer]

NoAppetizer == [URL |-> <<>>, Format |-> "", Options |-> {}]

AppetizerSrtFirst(r) ==
  IF isSRT(r)
  THEN [err |-> "nil",
        app |-> [URL |-> r.StreamURL,
                 Format |-> "mpegts",
                 Options |-> {<<"srt_streamid", r.StreamID>>,
                              <<"transtype", <<"l", "i", "v", "e">>>>,
                              <<"smoother", <<"l", "i", "v", "e">>>>}]]
  ELSE IF isRTMP(r)
  THEN [err |-> "nil",
        app |-> [URL |-> r.StreamURL \o <<"/">> \o r.StreamID,
                 Format |-> "flv",
                 Options |-> {<<"rtmp_live", <<"l", "i", "v", "e">>>>}]]
  ELSE [err |-> "ErrUnsupportedStreamURL", app |-> NoAppetizer]

\* donutEngine.Appetizer; Options is the map as its set of key/value pairs
Appetizer(r) ==
  IF isRTMP(r)
  THEN [err |-> "nil",
        app |-> [URL |-> r.StreamURL \o <<"/">> \o r.StreamID,
                 Format |-> "flv",
                 Options |-> {<<"rtmp_live", <<"l", "i", "v", "e">>>>}]]
  ELSE IF isSRT(r)
  THEN [err |-> "nil",
        app |-> [URL |-> r.StreamURL,
                 Format |-> "mpegts",
                 Options |-> {<<"srt_streamid", r.StreamID>>,
                              <<"transtype", <<"l", "i", "v", "e">>>>,
                              <<"smoother", <<"l", "i", "v", "e">>>>}]]
  ELSE [err |-> "ErrUnsupportedStreamURL", app |-> NoAppetizer]

AudioResamplerFilterOfInput(sampleRate) == <<"aresample", 44100>>

\* entities.AudioResamplerFilter: "aresample=<sampleRate>"
AudioResamplerFilter(sampleRate) == <<"aresample", sampleRate>>

\* entities.SetSampleRate, SetBitRate, SetSampleFormat: the field of the
\* codec context the option sets, and the value
SetSampleRate(sampleRate) == <<"sample_rate", sampleRate>>
SetBitRate(bitRate) == <<"bit_rate", bitRate>>
SetSampleFormat(fmt) ==
  <<"sample_format", IF fmt = "fltp" THEN "fltp" ELSE IF fmt = "flt" THEN "flt" ELSE "s16">>

NoRecipe == <<>>

RecipeForCounting(srv, cli) ==
  [err |-> "nil",
   recipe |-> [Input |-> Appetizer(req).app, calls |-> Len(plans)]]

\* donutEngine.RecipeFor
RecipeFor(srv, cli) ==
  LET appetizer == Appetizer(req)
  IN IF appetizer.err # "nil" THEN [err |-> appetizer.err, recipe |-> NoRecipe]
     ELSE [err |-> "nil",
           recipe |->
             [Input |-> appetizer.app,
              Video |-> [Action |-> "bypass", Codec |-> "h264",
                         DonutBitStreamFilter |-> "h264_mp4toannexb",
                         DonutStreamFilter |-> "nil",
                         CodecContextOptions |-> <<>>],
              Audio |-> [Action |-> "transcode", Codec |-> "opus",
                         DonutBitStreamFilter |-> "nil",
                         DonutStreamFilter |-> AudioResamplerFilter(48000),
                         CodecContextOptions |->
                           << SetSampleRate(48000), SetBitRate(128000),
                              SetSampleFormat("s16") >>]]]

\* the media tasks of a recipe as Stream reads them
StreamRecipe(r) ==
  [video |-> [action |-> r.Video.Action, bsf |-> r.Video.DonutBitStreamFilter # "nil"],
   audio |-> [action |-> r.Audio.Action, bsf |-> r.Audio.DonutBitStreamFilter # "nil"]]

\* --------------------------------------------- WHEPHandler.ServeHTTP
\* at most this many calls of RecipeFor on one engine
MaxCalls == 2

\* entities.StreamInfo as the planner could read it: type and codec of each
\* stream
ServerInfos ==
  { <<>>,
    <<[Type |-> "video", Codec |-> "h264"], [Type |-> "audio", Codec |-> "aac"]>>,
    <<[Type |-> "video", Codec |-> "h265"], [Type |-> "audio", Codec |-> "aac"]>> }

ClientInfos ==
  { <<[Type |-> "video", Codec |-> "h264"], [Type |-> "audio", Codec |-> "opus"]>>,
    <<[Type |-> "video", Codec |-> "vp8"]>> }

\* the variables of the Stream call, ctxErr apart
streamState ==
  <<recipe, cb, input, dtsMax, upstreamLive, pc, closer, allocated, released,
    streams, inPkt, viaBsf, budget, errors, onStreamLog, onCloseCalls,
    lastSink, failed, exit, cancelHist, streamerState, proberState>>

\* cancel() of context.WithCancel
cancelled == IF ctxErr = "none" THEN "context.Canceled" ELSE ctxErr

\* ServeHTTP returns e
hReturn(e) ==
  /\ hpc' = "returned"
  /\ herr' = e

\* the request arrives
ReqInit ==
  /\ InitOf({CanonicalRecipe}, {AllCallbacks}, {<<>>}, {0}, {TRUE})
  /\ req \in Requests
  /\ probers \in Registries
  /\ streamers \in Registries
  /\ hpc = "ServeHTTP"
  /\ herr = <<"nil", "">>
  /\ engine = <<>>
  /\ server = <<>>
  /\ client = <<>>
  /\ done = FALSE
  /\ calls = <<>>
  /\ plans = <<>>

\* method, content type and body of the request
hParse ==
  /\ hpc = "ServeHTTP"
  /\ \E outcome \in {"nil", "method not allowed", "unsupported media type",
                     "failed to read request body"} :
       IF outcome = "nil"
       THEN hpc' = "Valid" /\ herr' = herr
       ELSE hReturn(<<outcome, "">>)
  /\ UNCHANGED <<streamState, response, ctxErr, req, probers, streamers, engine, server,
                 client, done, calls, plans>>

hValidUnchecked ==
  /\ hpc = "Valid"
  /\ calls' = Append(calls, "Valid")
  /\ hpc' = "EngineFor"
  /\ herr' = herr
  /\ UNCHANGED <<streamState, response, ctxErr, req, probers, streamers, engine, server,
                 client, done, plans>>

\* params.Valid()
hValid ==
  /\ hpc = "Valid"
  /\ calls' = Append(calls, "Valid")
  /\ IF Valid(req) # "nil"
     THEN hReturn(<<"invalid request parameters", Valid(req)>>)
     ELSE hpc' = "EngineFor" /\ herr' = herr
  /\ UNCHANGED <<streamState, response, ctxErr, req, probers, streamers, engine, server,
                 client, done, plans>>

\* h.donut.EngineFor(&params)
hEngineFor ==
  /\ hpc = "EngineFor"
  /\ calls' = Append(calls, "EngineFor")
  /\ LET e == EngineFor(req)
     IN IF e.err # "nil"
        THEN hReturn(<<"failed to create DonutEngine", e.err>>) /\ engine' = engine
        ELSE /\ engine' = [prober |-> e.prober, streamer |-> e.streamer]
             /\ hpc' = "ServerIngredients"
             /\ herr' = herr
  /\ UNCHANGED <<streamState, response, ctxErr, req, probers, streamers, server, client,
                 done, plans>>

\* donutEngine.ServerIngredients(): Appetizer, then the prober's StreamInfo,
\* which opens the input and may fail
hServerIngredients ==
  /\ hpc = "ServerIngredients"
  /\ calls' = Append(calls, "ServerIngredients")
  /\ IF Appetizer(req).err # "nil"
     THEN hReturn(<<"failed to get server stream info", Appetizer(req).err>>)
          /\ server' = server
     ELSE \/ hReturn(<<"failed to get server stream info", "StreamInfo">>)
             /\ server' = server
          \/ /\ server' \in ServerInfos
             /\ hpc' = "ClientIngredients"
             /\ herr' = herr
  /\ UNCHANGED <<streamState, response, ctxErr, req, probers, streamers, engine, client,
                 done, plans>>

\* donutEngine.ClientIngredients(): the mapper reads the offer
hClientIngredients ==
  /\ hpc = "ClientIngredients"
  /\ calls' = Append(calls, "ClientIngredients")
  /\ \/ hReturn(<<"failed to get client stream info", "mapper">>)
        /\ client' = client
     \/ /\ client' \in ClientInfos
        /\ hpc' = "RecipeFor"
        /\ herr' = herr
  /\ UNCHANGED <<streamState, response, ctxErr, req, probers, streamers, engine, server,
                 done, plans>>

\* donutEngine.RecipeFor(serverStreamInfo, clientStreamInfo)
hRecipeFor ==
  /\ hpc = "RecipeFor"
  /\ calls' = Append(calls, "RecipeFor")
  /\ LET out == RecipeFor(server, client)
     IN /\ plans' = Append(plans, [server |-> server, client |-> client, out |-> out])
        /\ IF out.err # "nil"
           THEN hReturn(<<"failed to create DonutRecipe", out.err>>)
           ELSE hpc' = "Setup" /\ herr' = herr
  /\ UNCHANGED <<streamState, response, ctxErr, req, probers, streamers, engine, server,
                 client, done>>

\* a call of RecipeFor on the engine of the request, by any holder of the
\* DonutEngine
RecipeForCall ==
  /\ engine # <<>>
  /\ Len(plans) < MaxCalls
  /\ \E srv \in ServerInfos, cli \in ClientInfos :
       plans' = Append(plans, [server |-> srv, client |-> cli, out |-> RecipeFor(srv, cli)])
  /\ UNCHANGED <<streamState, response, ctxErr, req, probers, streamers, hpc, herr, engine,
                 server, client, done, calls>>

\* ctx, cancel := context.WithCancel; h.webRTCController.Setup
hSetup ==
  /\ hpc = "Setup"
  /\ calls' = Append(calls, "Setup")
  /\ \/ hReturn(<<"failed to set up WebRTC", "Setup">>)
        /\ ctxErr' = cancelled
     \/ /\ hpc' = "Serve"
        /\ herr' = herr
        /\ ctxErr' = ctxErr
  /\ UNCHANGED <<streamState, response, req, probers, streamers, engine, server, client,
                 done, plans>>

\* the two goroutines are started: the one that waits for the client to
\* disconnect, and donutEngine.Serve, which runs Stream
hServe ==
  /\ hpc = "Serve"
  /\ calls' = Append(calls, "Serve")
  /\ hpc' = "respond"
  /\ UNCHANGED <<streamState, response, ctxErr, req, probers, streamers, herr, engine,
                 server, client, done, plans>>

\* <-r.Context().Done(): close(done); cancel()
hDisconnect ==
  /\ hpc \in {"respond", "wait"}
  /\ ~done
  /\ done' = TRUE
  /\ ctxErr' = cancelled
  /\ UNCHANGED <<streamState, response, req, probers, streamers, hpc, herr, engine,
                 server, client, calls, plans>>

\* w.WriteHeader(http.StatusCreated) and the SDP answer is written to the
\* client
hRespond ==
  /\ hpc = "respond"
  /\ response' = WriteHeader(response, 201, <<"answer", "">>)
  /\ \/ hReturn(<<"failed to write SDP answer", "Write">>)
        /\ ctxErr' = cancelled
     \/ /\ hpc' = "wait"
        /\ herr' = herr
        /\ ctxErr' = ctxErr
  /\ UNCHANGED <<streamState, req, probers, streamers, engine, server, client,
                 done, calls, plans>>

\* <-done; return nil
hWait ==
  /\ hpc = "wait"
  /\ done
  /\ hReturn(<<"nil", "">>)
  /\ UNCHANGED <<streamState, response, ctxErr, req, probers, streamers, engine, server,
                 client, done, calls, plans>>

ReqNext ==
  \/ hParse
  \/ hValid
  \/ hEngineFor
  \/ hServerIngredients
  \/ hClientIngredients
  \/ hRecipeFor
  \/ hSetup
  \/ hServe
  \/ hDisconnect
  \/ hRespond
  \/ hWait

\* one request served by the WHEP handler
ReqSpec == ReqInit /\ [][ReqNext]_vars

\* an engine EngineFor returned over the built-in prober and streamer
PlanInit ==
  /\ InitOf({CanonicalRecipe}, {AllCallbacks}, {<<>>}, {0}, {TRUE})
  /\ probers = <<[impl |-> "libav", accepts |-> FALSE]>>
  /\ streamers = <<[impl |-> "libav", accepts |-> FALSE]>>
  /\ req \in {r \in Requests : EngineFor(r).err = "nil"}
  /\ engine = [prober |-> EngineFor(req).prober, streamer |-> EngineFor(req).streamer]
  /\ hpc = "none"
  /\ herr = <<"nil", "">>
  /\ server = <<>>
  /\ client = <<>>
  /\ done = FALSE
  /\ calls = <<>>
  /\ plans = <<>>

\* RecipeFor called again and again on one engine
PlanSpec == PlanInit /\ [][RecipeForCall]_vars

\* ------------------------------------------------- the HTTP response
\* router.go errorHandler: err := next.ServeHTTP(w, r); when err is not nil,
\* http.Error(w, err.Error(), http.StatusInternalServerError)
errorHandler ==
  /\ hpc = "returned"
  /\ ~response.handled
  /\ response' =
       [(IF herr[1] # "nil" THEN WriteHeader(response, 500, herr) ELSE response)
          EXCEPT !.handled = TRUE]
  /\ UNCHANGED <<streamState, ctxErr, req, probers, streamers, hpc, herr, engine,
                 server, client, done, calls, plans>>

\* the goroutine go donutEngine.Serve(...) started: Stream runs
serving ==
  /\ "Serve" \in SeqToSet(calls)
  /\ Next

HttpNext == ReqNext \/ errorHandler \/ serving

\* the requests served with the built-in prober and streamer, and the
\* session of a request that got as far, on an input of one video stream
HttpInit ==
  /\ InitOf({CanonicalRecipe}, {AllCallbacks}, {<<"video">>}, {1}, {TRUE})
  /\ req \in Requests
  /\ probers = <<[impl |-> "libav", accepts |-> FALSE]>>
  /\ streamers = <<[impl |-> "libav", accepts |-> FALSE]>>
  /\ hpc = "ServeHTTP"
  /\ herr = <<"nil", "">>
  /\ engine = <<>>
  /\ server = <<>>
  /\ client = <<>>
  /\ done = FALSE
  /\ calls = <<>>
  /\ plans = <<>>

HttpSpec == HttpInit /\ [][HttpNext]_vars

\* ------------------------------------------------ opening the input
\* strings.Index, counting from 1; 0 when sep does not occur
Index(s, sep) ==
  LET at == {i \in 1..(Len(s) - Len(sep) + 1) : SubSeq(s, i, i + Len(sep) - 1) = sep}
  IN IF at = {} THEN 0 ELSE CHOOSE i \in at : \A j \in at : i <= j

\* strings.Split for a non-empty separator
RECURSIVE Split(_, _)
Split(s, sep) ==
  LET i == Index(s, sep)
  IN IF i = 0 THEN <<s>>
     ELSE <<SubSeq(s, 1, i - 1)>> \o Split(SubSeq(s, i + Len(sep), Len(s)), sep)

srtScheme == <<"s", "r", "t", ":", "/", "/">>
schemeSep == <<":", "/", "/">>
bindAll == <<"s", "r", "t", ":", "/", "/", "0", ".", "0", ".", "0", ".", "0", ":">>
listener == <<"l", "i", "s", "t", "e", "n", "e", "r">>

\* inputOptions.Set(k, v, 0) on the dictionary as its set of key/value pairs
DictSet(d, k, v) == {p \in d : p[1] # k} \cup {<<k, v>>}

\* StreamInfo: inputURL, the SRT URL bound to 0.0.0.0 when it has the shape
\* scheme://host:port
proberInputURL(url) ==
  IF Contains(ToLower(url), srtScheme)
  THEN LET urlParts == Split(url, schemeSep)
       IN IF Len(urlParts) = 2
          THEN LET hostPort == Split(Split(urlParts[2], <<"?">>)[1], <<":">>)
               IN IF Len(hostPort) = 2 THEN bindAll \o hostPort[2] ELSE url
          ELSE url
  ELSE url

proberInputOptionsAsGiven(app) == app.Options

\* StreamInfo: inputOptions, the Appetizer's options and mode=listener for SRT
proberInputOptions(app) ==
  IF Contains(ToLower(proberInputURL(app.URL)), srtScheme)
  THEN DictSet(app.Options, "mode", listener)
  ELSE app.Options

\* prepareInput: inputURL
streamerInputURL(url) ==
  IF Contains(ToLower(url), srtScheme)
  THEN LET urlParts == Split(url, schemeSep)
       IN IF Len(urlParts) = 2
          THEN LET hostPort == Split(Split(urlParts[2], <<"?">>)[1], <<":">>)
               IN IF Len(hostPort) = 2 THEN bindAll \o hostPort[2] ELSE url
          ELSE url
  ELSE url

\* prepareInput: inputOptions
streamerInputOptions(app) ==
  IF Contains(ToLower(streamerInputURL(app.URL)), srtScheme)
  THEN DictSet(app.Options, "mode", listener)
  ELSE app.Options

\* the stream URLs of the requests whose input is opened: those of
\* StreamURLs, "srt://h:9?m" and "srt://h"
OpenURLs ==
  StreamURLs \cup { srtScheme \o <<"h", ":", "9", "?", "m">>, srtScheme \o <<"h">> }

OpenRequests ==
  {r \in [StreamURL : OpenURLs, StreamID : StreamIDs] : Appetizer(r).err = "nil"}

\* StreamInfo, its effects in program order up to the loop over the streams
StreamInfoOps ==
  << Fail("ErrFFmpegLibAVFormatContextIsNil", 0),
     Alloc("inputFormatContext", 0), Add("inputFormatContext", 0),
     Fail("ffmpeg/libav: could not find input format", 0),
     Alloc("inputOptions", 0), Add("inputOptions", 0),
     Fail("error while inputFormatContext.OpenInput", 0),
     Alloc("openedInput", 0), Add("openedInput", 0),
     Fail("error while inputFormatContext.FindStreamInfo", 0) >>

\* the entities.Stream of each audio or video stream, in input order
proberStreams ==
  SelectSeq([i \in 1..Len(input) |-> [Index |-> i, Type |-> input[i]]],
            LAMBDA st : IsAV(st.Type))

\* what neither opener changes
openFrame ==
  <<recipe, cb, input, dtsMax, upstreamLive, pc, ctxErr, closer, allocated,
    released, streams, inPkt, viaBsf, budget, errors, onStreamLog,
    onCloseCalls, lastSink, failed, exit, cancelHist, streamerState, handler>>

\* d.prober.StreamInfo(appetizer): the call runs to its end (k = 0) or
\* returns the error of its k-th effect; the deferred closer.Close runs on
\* every return
StreamInfo ==
  /\ probe.pc = "none"
  /\ \E k \in 0..Len(StreamInfoOps) :
       /\ k > 0 => StreamInfoOps[k].op = "fail"
       /\ LET app == Appetizer(req).app
              n == IF k = 0 THEN Len(StreamInfoOps) ELSE k - 1
              st == Exec(StreamInfoOps, n,
                         [closer |-> <<>>, allocated |-> <<>>, streams |-> <<>>,
                          onStreamLog |-> <<>>])
          IN /\ probe' = [pc |-> "returned", closer |-> st.closer,
                          allocated |-> st.allocated, released |-> Close(st.closer),
                          result |-> IF k = 0 THEN proberStreams ELSE <<>>,
                          err |-> IF k = 0 THEN "nil" ELSE StreamInfoOps[k].err]
             /\ opens' =
                  IF n >= 6
                  THEN Append(opens, [by |-> "prober",
                                      url |-> proberInputURL(app.URL),
                                      format |-> app.Format,
                                      options |-> proberInputOptions(app)])
                  ELSE opens
  /\ UNCHANGED openFrame

\* prepareInput of the session the request goes on to, up to its OpenInput;
\* donut.Recipe.Input is the Appetizer
streamerOpenInput ==
  /\ probe.pc = "returned"
  /\ probe.err = "nil"
  /\ \A k \in 1..Len(opens) : opens[k].by # "streamer"
  /\ LET app == Appetizer(req).app
     IN opens' = Append(opens, [by |-> "streamer",
                                url |-> streamerInputURL(app.URL),
                                format |-> app.Format,
                                options |-> streamerInputOptions(app)])
  /\ UNCHANGED <<probe, openFrame>>

OpenNext == StreamInfo \/ streamerOpenInput

\* the requests EngineFor accepts, served with the built-in prober and
\* streamer, on every input
OpenInit ==
  /\ InitOf({CanonicalRecipe}, {AllCallbacks}, Inputs, {0}, {TRUE})
  /\ probers = <<[impl |-> "libav", accepts |-> FALSE]>>
  /\ streamers = <<[impl |-> "libav", accepts |-> FALSE]>>
  /\ req \in OpenRequests
  /\ engine = <<>>
  /\ hpc = "none"
  /\ herr = <<"nil", "">>
  /\ server = <<>>
  /\ client = <<>>
  /\ done = FALSE
  /\ calls = <<>>
  /\ plans = <<>>

OpenSpec == OpenInit /\ [][OpenNext]_vars

\* ------------------------------------------------- opening the encoder
\* the decoder contexts of the transcoded streams: AAC audio at 44.1 or
\* 48 kHz, and video (which has no sample rate)
Decoders ==
  { [media |-> "audio", sample_rate |-> 44100, sample_format |-> "fltp"],
    [media |-> "audio", sample_rate |-> 48000, sample_format |-> "fltp"],
    [media |-> "video", sample_rate |-> 0, sample_format |-> "none"] }

\* s.encCodec.SampleFormats(): the formats the encoder lists, if it lists any
EncoderSampleFormats == { <<>>, <<"s16", "flt">> }

\* the codec_options a transcode task may carry: none, those of the
\* canonical audio task, a bit rate alone
OptionLists ==
  { <<>>,
    << SetSampleRate(48000), SetBitRate(128000), SetSampleFormat("s16") >>,
    << SetBitRate(64000) >> }

\* opt(s.encCodecContext), for each option in order
RECURSIVE ApplyOptions(_, _)
ApplyOptions(ctx, opts) ==
  IF opts = <<>> THEN ctx
  ELSE ApplyOptions([ctx EXCEPT ![Head(opts)[1]] = Head(opts)[2]], Tail(opts))

\* the options prepareOutput applies: donut.Recipe.Video.CodecContextOptions
\* inside its video branch, none in its audio branch
optionsApplied(dec, task) ==
  IF dec.media = "video" THEN task.CodecContextOptions ELSE <<>>

\* prepareOutput: the encoder context of a transcoded stream when it is
\* opened; AllocCodecContext leaves bit_rate at the codec's default (0 here)
encCodecContext(dec, task, formats) ==
  LET fresh == [sample_rate |-> 0, bit_rate |-> 0, sample_format |-> "none"]
      defaults ==
        IF dec.media = "audio"
        THEN [fresh EXCEPT !.sample_rate = dec.sample_rate,
                           !.sample_format =
                              IF Len(formats) > 0 THEN formats[1]
                              ELSE dec.sample_format]
        ELSE fresh
  IN ApplyOptions(defaults, optionsApplied(dec, task))

\* prepareOutput reaches s.encCodecContext.Open for a transcoded stream
openEncoder ==
  /\ Len(encoders) < MaxCalls
  /\ \E dec \in Decoders, opts \in OptionLists, formats \in EncoderSampleFormats :
       LET task == [Action |-> "transcode", CodecContextOptions |-> opts]
       IN encoders' = Append(encoders,
            [dec |-> dec, task |-> task,
             ctx |-> encCodecContext(dec, task, formats)])
  /\ UNCHANGED <<lastAudioFrameDTS, currentAudioFrameSize, sessions, durLog,
                 crashed, recipe, cb, input, dtsMax, upstreamLive, pc, ctxErr,
                 closer, allocated, released, streams, inPkt, viaBsf, budget,
                 errors, onStreamLog, onCloseCalls, lastSink, failed, exit,
                 cancelHist, frames, proberState, handler>>

EncInit == InitOf({CanonicalRecipe}, {AllCallbacks}, {<<>>}, {0}, {TRUE}) /\ NoHandler

\* the encoders opened for transcoded streams
EncSpec == EncInit /\ [][openEncoder]_vars

\* ------------------------------------------------- the frame durations
\* the frames whose durations are observed
MaxLog == 2

\* time.Duration is an int64 of nanoseconds; its two extremes, at the width
\* of the model's integers
MinDuration == -2147483647

MaxDuration == 2147483647

\* the DTS a packet may carry
PacketDTS == {-1, 0, 1}

\* s.encCodecContext.SampleRate() of the audio stream with index i
SampleRate(i) == IF i = 1 THEN 48000 ELSE 8000

\* s.inputStream.AvgFrameRate().Num(): 0 while libavformat has no estimate
FrameRates == {0, 25, 30}

\* float64(pkt.Dts())-c.lastAudioFrameDTS > 0
exceeds(dts, last) == dts - last > 0

\* time.Duration((c.currentAudioFrameSize / sampleRate) * float64(time.Second)),
\* for the sample rates of SampleRate: the nanoseconds, truncated towards 0
audioDuration(samples, rate) ==
  IF samples >= 0
  THEN (samples * 1000000) \div (rate \div 1000)
  ELSE -((-samples * 1000000) \div (rate \div 1000))

\* time.Duration((float64(1) / float64(num)) * float64(time.Second)): the
\* nanoseconds, truncated; 1/0 is +Inf, whose conversion to int64 is left to
\* the implementation (the smallest int64 on amd64, the largest on arm64)
videoDuration(num) ==
  IF num = 0 THEN {MinDuration, MaxDuration} ELSE {1000000000 \div num}

\* what the steps on the streamer leave alone: the variables of the handler
\* and of the Stream call followed step by step
callState ==
  <<recipe, cb, input, dtsMax, upstreamLive, pc, ctxErr, closer, allocated,
    released, streams, inPkt, viaBsf, budget, errors, onStreamLog,
    onCloseCalls, lastSink, failed, exit, cancelHist, encoders, frames,
    proberState, handler>>

\* session s moves to c
step(s, c) == sessions' = [sessions EXCEPT ![s] = c]

\* go h.engine.Serve(...): a request starts Stream on the streamer, with
\* the canonical recipe (audio transcoded) and an input whose video stream
\* has one of the frame rates in rates
StreamCalled(s, rates) ==
  /\ ~crashed
  /\ sessions[s].at = "none"
  /\ \E n \in rates :
       step(s, [NoSession EXCEPT !.audio = "transcode", !.frameRate = n,
                                 !.at = "idle"])
  /\ UNCHANGED <<lastAudioFrameDTS, currentAudioFrameSize, durLog, crashed, callState>>

\* an audio frame is about to be given to OnAudioFrame:
\* c.defineAudioDuration(s, pkt) is entered
defineAudioDuration(s) ==
  /\ ~crashed
  /\ sessions[s].at = "idle"
  /\ Len(durLog) < MaxLog
  /\ \E i \in AudioStreams(s), d \in PacketDTS :
       step(s, [sessions[s] EXCEPT !.at = "925", !.stream = i, !.dts = d,
                                   !.prevLast = lastAudioFrameDTS,
                                   !.prevCur = currentAudioFrameSize])
  /\ UNCHANGED <<lastAudioFrameDTS, currentAudioFrameSize, durLog, crashed, callState>>

\* if float64(pkt.Dts())-c.lastAudioFrameDTS > 0
audioTest(s) ==
  /\ ~crashed
  /\ sessions[s].at = "925"
  /\ step(s, [sessions[s] EXCEPT !.at =
                IF exceeds(sessions[s].dts, lastAudioFrameDTS) THEN "926" ELSE "929"])
  /\ UNCHANGED <<lastAudioFrameDTS, currentAudioFrameSize, durLog, crashed, callState>>

\* c.currentAudioFrameSize = float64(pkt.Dts()) - c.lastAudioFrameDTS
audioAssign(s) ==
  /\ ~crashed
  /\ sessions[s].at = "926"
  /\ currentAudioFrameSize' = sessions[s].dts - lastAudioFrameDTS
  /\ step(s, [sessions[s] EXCEPT !.at = "929"])
  /\ UNCHANGED <<lastAudioFrameDTS, durLog, crashed, callState>>

\* c.lastAudioFrameDTS = float64(pkt.Dts())
audioSetLast(s) ==
  /\ ~crashed
  /\ sessions[s].at = "929"
  /\ lastAudioFrameDTS' = sessions[s].dts
  /\ step(s, [sessions[s] EXCEPT !.at = "930"])
  /\ UNCHANGED <<currentAudioFrameSize, durLog, crashed, callState>>

\* sampleRate := float64(s.encCodecContext.SampleRate()) and the duration:
\* a bypassed stream has no encoder context, and the call on the nil pointer
\* panics; otherwise the frame goes to the sink with its duration
audioReturn(s) ==
  /\ ~crashed
  /\ sessions[s].at = "930"
  /\ IF sessions[s].audio = "bypass"
     THEN /\ crashed' = TRUE
          /\ UNCHANGED <<sessions, durLog>>
     ELSE /\ durLog' = Append(durLog,
                [sess |-> s, media |-> "audio", stream |-> sessions[s].stream,
                 dts |-> sessions[s].dts,
                 duration |-> audioDuration(currentAudioFrameSize,
                                            SampleRate(sessions[s].stream)),
                 samples |-> currentAudioFrameSize,
                 rate |-> SampleRate(sessions[s].stream),
                 prevLast |-> sessions[s].prevLast,
                 prevCur |-> sessions[s].prevCur,
                 lastAfter |-> lastAudioFrameDTS])
          /\ step(s, [sessions[s] EXCEPT !.at = "idle"])
          /\ UNCHANGED crashed
  /\ UNCHANGED <<lastAudioFrameDTS, currentAudioFrameSize, callState>>

\* a video frame is given to OnVideoFrame with c.defineVideoDuration(s, pkt)
defineVideoDuration(s) ==
  /\ ~crashed
  /\ sessions[s].at = "idle"
  /\ Len(durLog) < MaxLog
  /\ \E d \in PacketDTS, ns \in videoDuration(sessions[s].frameRate) :
       durLog' = Append(durLog,
         [sess |-> s, media |-> "video", stream |-> 0, dts |-> d,
          duration |-> ns, samples |-> 0, rate |-> sessions[s].frameRate,
          prevLast |-> 0, prevCur |-> 0, lastAfter |-> 0])
  /\ UNCHANGED <<lastAudioFrameDTS, currentAudioFrameSize, sessions, crashed, callState>>

\* the sessions of one streamer, as far as the audio durations they report
AudioDurNext ==
  \E s \in Sessions :
    \/ StreamCalled(s, {0})
    \/ defineAudioDuration(s)
    \/ audioTest(s)
    \/ audioAssign(s)
    \/ audioSetLast(s)
    \/ audioReturn(s)

DurInit == InitOf({CanonicalRecipe}, {AllCallbacks}, {<<>>}, {0}, {TRUE}) /\ NoHandler

AudioDurSpec == DurInit /\ [][AudioDurNext]_vars

\* the sessions of one streamer, as far as the video durations they report
VideoDurNext ==
  \E s \in Sessions :
    \/ StreamCalled(s, FrameRates)
    \/ defineVideoDuration(s)

VideoDurSpec == DurInit /\ [][VideoDurNext]_vars

\* ------------------------------------------- the frames given to the sinks
\* time bases <<num, den>> of the input streams
InputTimeBases == { <<1, 2>>, <<1, 3>> }

\* the time base a video codec option (entities.SetTimeBase) may give the
\* encoder in place of the decoder's
OptionTimeBases == { <<1, 1>> }

\* the timestamps of a packet: a DTS, and a PTS one tick later
PacketTS == {-3, -1, 0, 1, 2}

Packets == { [pts |-> d + 1, dts |-> d, data |-> <<"payload">>] : d \in PacketTS }

av_rescale_floor(a, bq, cq) == (a * (bq[1] * cq[2])) \div (cq[1] * bq[2])

\* av_rescale_q(a, bq, cq), the rescale behind Packet.RescaleTs:
\* av_rescale_rnd(a, bq.num * cq.den, cq.num * bq.den, AV_ROUND_NEAR_INF),
\* which computes (a * b + c / 2) / c on the magnitude of a and restores
\* the sign
av_rescale_q(a, bq, cq) ==
  LET b == bq[1] * cq[2]
      c == cq[1] * bq[2]
      mag(x) == (x * b + c \div 2) \div c
  IN IF a < 0 THEN -mag(-a) ELSE mag(a)

\* pkt.RescaleTs(from, to): PTS and DTS of the packet are rescaled in place
RescaleTs(pkt, from, to) ==
  [pkt EXCEPT !.pts = av_rescale_q(pkt.pts, from, to),
              !.dts = av_rescale_q(pkt.dts, from, to)]

\* uint32(x) of an int64 x: the low 32 bits, as two 16-bit halves
uint32(x) == << (x \div 65536) % 65536, x % 65536 >>

PayloadTypeVideoOnly(m) == 96

\* the payload type of the RTP header: 96 in the literal, 111 set on the
\* audio branch
PayloadType(m) == IF m = "audio" THEN 111 ELSE 96

\* rtpPacket.Marshal() of the packet encodeFrame builds around an encoded
\* packet: the header fields and the payload
rtpPacket(m, encPkt) ==
  [Version |-> 2, PayloadType |-> PayloadType(m), SequenceNumber |-> 0,
   Timestamp |-> uint32(encPkt.pts), SSRC |-> 0, Payload |-> encPkt.data]

\* the sink of a media type
sinkOf(m) == IF m = "video" THEN "OnVideoFrame" ELSE "OnAudioFrame"

\* the streamContexts setup can leave for the session's recipe: the decoder
\* has the time base of the input stream, the encoder the decoder's unless a
\* video option replaced it; the video stream has avg_frame_rate 30/1, the
\* audio encoder the sample rate of the first audio stream
StreamContexts ==
  { s \in [media : {"video", "audio"}, inTB : InputTimeBases,
           encTB : InputTimeBases \cup OptionTimeBases] :
      \/ s.encTB = s.inTB
      \/ /\ s.media = "video"
         /\ TaskOf(s.media).action = "transcode"
         /\ s.encTB \in OptionTimeBases }

\* c.defineAudioDuration(s, pkt) run in one piece: the two fields after the
\* call, and the duration when the stream has an encoder context
audioFieldsAfter(pkt) ==
  [last |-> pkt.dts,
   cur |-> IF exceeds(pkt.dts, lastAudioFrameDTS)
           THEN pkt.dts - lastAudioFrameDTS ELSE currentAudioFrameSize]

\* the frame is handed to the sink of stream s with its context
sinkCalled(s, pkt, out, data, duration) ==
  frames' = Append(frames,
    [sink |-> sinkOf(s.media), data |-> data, PTS |-> out.pts, DTS |-> out.dts,
     Duration |-> duration, pkt |-> pkt, stream |-> s,
     action |-> TaskOf(s.media).action])

\* processPacket for a packet of a bypassed stream (lines 717-743), and the
\* body of encodeFrame's receive loop for a packet the encoder of a
\* transcoded stream returned (lines 834-880)
dispatch ==
  /\ ~crashed
  /\ Len(frames) < MaxLog
  /\ \E s \in StreamContexts, pkt \in Packets :
       LET byPass == TaskOf(s.media).action = "bypass"
           out == IF byPass THEN RescaleTs(pkt, s.inTB, s.inTB)
                  ELSE RescaleTs(pkt, s.inTB, s.encTB)
           data == IF byPass THEN out.data ELSE rtpPacket(s.media, out)
           after == audioFieldsAfter(out)
       IN IF ~hasSink(s.media)
          THEN UNCHANGED <<frames, lastAudioFrameDTS, currentAudioFrameSize, crashed>>
          ELSE IF s.media = "video"
          THEN /\ \E ns \in videoDuration(30) : sinkCalled(s, pkt, out, data, ns)
               /\ UNCHANGED <<lastAudioFrameDTS, currentAudioFrameSize, crashed>>
          ELSE /\ lastAudioFrameDTS' = after.last
               /\ currentAudioFrameSize' = after.cur
               /\ IF byPass
                  THEN \* s.encCodecContext is nil: SampleRate() panics
                       \* while the arguments of OnAudioFrame are evaluated
                       crashed' = TRUE /\ UNCHANGED frames
                  ELSE /\ sinkCalled(s, pkt, out, data,
                                     audioDuration(after.cur, SampleRate(1)))
                       /\ UNCHANGED crashed
  /\ UNCHANGED <<sessions, durLog, encoders, recipe, cb, input, dtsMax,
                 upstreamLive, pc, ctxErr, closer, allocated, released, streams,
                 inPkt, viaBsf, budget, errors, onStreamLog, onCloseCalls,
                 lastSink, failed, exit, cancelHist, proberState, handler>>

DispatchInit == InitOf(Recipes, CallbackSets, {<<>>}, {0}, {TRUE}) /\ NoHandler

\* the packets of a session's streams on their way to the sinks
DispatchSpec == DispatchInit /\ [][dispatch]_vars

\* ----------------------------------------------------------- claims
returned == pc = "returned"

\* C1: every read or processing error met in the run loop is passed to
\* OnError exactly once and the loop then ends, on the direct path and on
\* the bitstream-filter path alike.
C1_RunLoopErrorReportedOnce ==
  failed => (returned /\ (cb.OnError => Len(errors) = 1))

\* C2: whenever Stream has returned, OnClose was invoked before.
C2_OnCloseBeforeReturn == returned => onCloseCalls >= 1

\* C3: once the token is done no iteration is begun: the select at the top
\* of the loop never takes its default branch again, so whatever the sinks
\* still receive comes from the iteration in progress when the token fired.
C3_NoIterationAfterTokenDone == newIters = 0

C3_Witness ==
  /\ returned /\ exit = "ctx"
  /\ framesAfterCancel >= 1

\* C4, as stated: after the token fired at most one frame reaches the sinks.
C4_AtMostOneFrameAfterCancel == framesAfterCancel <= 1

\* C4, amended: after the token fired the frames that reach the sinks all
\* come from one input packet (the one of the iteration in progress).
C4_FramesOfOnePacketAfterCancel == pktsAfterCancel <= 1

C4_Witness ==
  /\ returned /\ exit = "ctx"
  /\ framesAfterCancel >= 2
  /\ pktsAfterCancel = 1

\* C5, as stated: once the token has fired Stream returns, whatever the
\* upstream does.
C5_ReturnsWithoutUpstream == (ctxErr # "none") ~> returned

\* C5, amended: once the token has fired Stream returns and the registered
\* releases have run, provided the upstream completes the call that waits
\* for it (OpenInput/FindStreamInfo of prepareInput, ReadFrame).
C5_ReturnsOnceUpstreamDelivers ==
  (upstreamLive /\ ctxErr # "none") ~> (returned /\ released = Reverse(closer))

C5_Witness ==
  /\ upstreamLive
  /\ returned /\ exit = "ctx"
  /\ released = Reverse(closer) /\ Len(released) >= 3

\* C6: when the select finds the token done, Stream returns without OnError
\* if ctx.Err() is context.Canceled, and with exactly one OnError carrying
\* ctx.Err() otherwise (OnError being set).
C6_TokenErrorReporting ==
  (returned /\ exit = "ctx") =>
    errors = IF ctxErr = "context.Canceled" \/ ~cb.OnError THEN <<>> ELSE <<ctxErr>>

C6_Witness ==
  /\ returned /\ exit = "ctx"
  /\ ctxErr = "context.DeadlineExceeded"
  /\ errors = <<"context.DeadlineExceeded">>

\* C7: when ReadFrame returns end of stream, a cancelled or a closed-pipe
\* error, Stream returns without OnError; on any other read error it returns
\* with exactly one OnError carrying that error (OnError being set); once
\* returned it takes no further step.
C7_ReadErrorReporting ==
  (returned /\ exit \in ReadErrors) =>
    /\ errors = IF exit \in {"ErrEof", "io.EOF", "context.Canceled", "io.ErrClosedPipe"}
                   \/ ~cb.OnError
                THEN <<>> ELSE <<exit>>
    /\ ~ENABLED (Upstream \/ StreamStep)

C7_Witness ==
  /\ returned /\ exit = "EIO"
  /\ errors = <<"EIO">>

\* C8: once Stream has passed an error to OnError, the session's token is
\* eventually done.
C8_ErrorFiresToken == (Len(errors) > 0) ~> (ctxErr # "none")

\* C9: every native resource allocated has its release registered, and when
\* Stream has returned each was released exactly once, in reverse order of
\* acquisition.
C9_ReleasedOnceInReverse ==
  /\ SeqToSet(allocated) \subseteq SeqToSet(closer)
  /\ returned => (released = Reverse(allocated) /\ NoDup(released))

C9_Witness ==
  /\ returned /\ exit = "ErrEof"
  /\ \E i \in 1..Len(input) : <<"bsfContext", i>> \in SeqToSet(released)
  /\ \E i \in 1..Len(input) : <<"encCodecContext", i>> \in SeqToSet(released)

\* C10: two frames given to the sinks one after the other for the same
\* stream have non-decreasing DTS.
C10_SinkDtsMonotonic ==
  [][(lastSink.idx # 0 /\ lastSink'.idx = lastSink.idx)
       => lastSink'.dts >= lastSink.dts]_vars

\* the audio and video streams of the input, in the order of Streams()
AudioVideoIndices ==
  SelectSeq([i \in 1..Len(input) |-> i], LAMBDA i : input[i] \in {"audio", "video"})

\* C11: OnStream (when set) is invoked once for each audio or video input
\* stream and for no other stream, all of it before prepareInput ends and so
\* before the first frame reaches a sink; when OnStream returns an error
\* Stream passes it to OnError and returns with no frame delivered.
C11_OnStreamOncePerStreamBeforeFrames ==
  /\ NoDup(onStreamLog)
  /\ \A k \in 1..Len(onStreamLog) : input[onStreamLog[k]] \in {"audio", "video"}
  /\ (cb.OnStream /\ pc \notin {"prepareInput", "returned"})
       => onStreamLog = AudioVideoIndices
  /\ (cb.OnStream /\ lastSink.idx # 0) => onStreamLog = AudioVideoIndices
  /\ ~cb.OnStream => onStreamLog = <<>>
  /\ ("OnStream failed" \in SeqToSet(errors))
       => (returned /\ exit = "setup" /\ errors = <<"OnStream failed">>
           /\ lastSink.idx = 0)

C11_Witness ==
  /\ \E i \in 1..Len(input) : input[i] = "data"
  /\ lastSink.idx # 0
  /\ onStreamLog = AudioVideoIndices /\ Len(onStreamLog) = 1

\* the lower-cased stream URL of the request contains "rtmp" or "srt"
urlSupported ==
  \E i \in 1..Len(req.StreamURL) :
    \/ /\ i + 3 <= Len(req.StreamURL)
       /\ \A k \in 0..3 : lowerOf(req.StreamURL[i + k]) = rtmp[k + 1]
    \/ /\ i + 2 <= Len(req.StreamURL)
       /\ \A k \in 0..2 : lowerOf(req.StreamURL[i + k]) = srt[k + 1]

\* params.Valid() was called and returned nil
validated == Len(calls) >= 1 /\ herr[1] # "invalid request parameters"

\* params.Valid() was called and returned an error
rejected == Len(calls) >= 1 /\ herr[1] = "invalid request parameters"

\* C12, as stated: Valid accepts exactly the requests whose stream URL is
\* non-empty and contains "rtmp" or "srt" in lower case, and rejects a
\* non-empty URL with neither with ErrUnsupportedStreamURL.
C12_ValidIffUrlSupported ==
  /\ validated => (req.StreamURL # <<>> /\ urlSupported)
  /\ rejected => ~(req.StreamURL # <<>> /\ urlSupported)
  /\ (rejected /\ req.StreamURL # <<>> /\ ~urlSupported)
       => herr[2] = "ErrUnsupportedStreamURL"

\* C12, amended: Valid accepts exactly the requests whose stream id is
\* non-empty and whose stream URL is non-empty and contains "rtmp" or "srt"
\* in lower case; it rejects an empty stream id with ErrMissingStreamID,
\* else an empty URL with ErrMissingStreamURL, else a URL with neither
\* substring with ErrUnsupportedStreamURL.
C12_ValidIffIdAndUrlSupported ==
  /\ validated => (req.StreamID # <<>> /\ req.StreamURL # <<>> /\ urlSupported)
  /\ rejected =>
       herr[2] = IF req.StreamID = <<>> THEN "ErrMissingStreamID"
                 ELSE IF req.StreamURL = <<>> THEN "ErrMissingStreamURL"
                 ELSE "ErrUnsupportedStreamURL"
  /\ rejected => (req.StreamID = <<>> \/ req.StreamURL = <<>> \/ ~urlSupported)

C12_Witness ==
  /\ rejected
  /\ req.StreamID = <<>> /\ urlSupported
  /\ herr[2] = "ErrMissingStreamID"

\* C13: when validation rejects the request, ServeHTTP returns at once:
\* EngineFor, ServerIngredients, ClientIngredients, RecipeFor, Setup and
\* Serve are not invoked, no engine exists, no context is created and
\* nothing is allocated.
C13_RejectedBeforeAnyStep ==
  (req.StreamID = <<>> \/ req.StreamURL = <<>> \/ ~urlSupported) =>
    /\ SeqToSet(calls) \subseteq {"Valid"}
    /\ Len(calls) <= 1
    /\ engine = <<>> /\ plans = <<>> /\ server = <<>> /\ client = <<>>
    /\ ctxErr = "none" /\ ~done
    /\ pc = "prepareInput" /\ allocated = <<>>
    /\ hpc \in {"ServeHTTP", "Valid", "returned"}

C13_Witness ==
  /\ hpc = "returned"
  /\ req.StreamURL = <<"h", "t", "t", "p", ":", "/", "/", "e">>
  /\ req.StreamID # <<>>
  /\ herr = <<"invalid request parameters", "ErrUnsupportedStreamURL">>
  /\ calls = <<"Valid">>

\* the registered implementations whose Match accepts the request
matching(reg) ==
  {i \in 1..Len(reg) :
     IF reg[i].impl = "libav" THEN urlSupported ELSE reg[i].accepts}

\* C14: EngineFor returns the first registered prober and the first
\* registered streamer that match the request; it fails with
\* ErrMissingProber when no prober matches and with ErrMissingStreamer when
\* a prober matches and no streamer does.
C14_EngineForFirstMatch ==
  (Len(calls) >= 2 /\ calls[2] = "EngineFor") =>
    IF matching(probers) = {}
    THEN herr = <<"failed to create DonutEngine", "ErrMissingProber">> /\ engine = <<>>
    ELSE IF matching(streamers) = {}
    THEN herr = <<"failed to create DonutEngine", "ErrMissingStreamer">> /\ engine = <<>>
    ELSE /\ engine # <<>>
         /\ engine.prober \in matching(probers)
         /\ \A j \in matching(probers) : engine.prober <= j
         /\ engine.streamer \in matching(streamers)
         /\ \A j \in matching(streamers) : engine.streamer <= j

C14_Witness ==
  /\ engine # <<>>
  /\ matching(probers) = {1, 2} /\ engine.prober = 1
  /\ matching(streamers) = {2} /\ engine.streamer = 2

\* the lower-cased stream URL of the request contains sub
urlContains(sub) ==
  \E i \in 1..Len(req.StreamURL) :
    /\ i + Len(sub) - 1 <= Len(req.StreamURL)
    /\ \A k \in 1..Len(sub) : lowerOf(req.StreamURL[i + k - 1]) = sub[k]

HasPrefix(s, prefix) ==
  Len(s) >= Len(prefix) /\ SubSeq(s, 1, Len(prefix)) = prefix

live == <<"l", "i", "v", "e">>

\* C15: for an SRT request the Appetizer (the Input of every recipe the
\* engine plans) has a url of the bind form srt://0.0.0.0:<port>, format
\* mpegts, and options with srt_streamid=<stream_id>, transtype=live,
\* smoother=live and mode=listener.
C15_SrtAppetizerBindsAndListens ==
  \A k \in 1..Len(plans) :
    (urlContains(srt) /\ ~urlContains(rtmp)) =>
      /\ plans[k].out.err = "nil"
      /\ HasPrefix(plans[k].out.recipe.Input.URL,
                   srt \o <<":", "/", "/", "0", ".", "0", ".", "0", ".", "0", ":">>)
      /\ plans[k].out.recipe.Input.Format = "mpegts"
      /\ { <<"srt_streamid", req.StreamID>>, <<"transtype", live>>,
           <<"smoother", live>>,
           <<"mode", <<"l", "i", "s", "t", "e", "n", "e", "r">>>> }
           \subseteq plans[k].out.recipe.Input.Options

\* C16: for an RTMP request the Appetizer has url <stream_url>/<stream_id>,
\* format flv and the options {rtmp_live=live}; Appetizer fails, with
\* ErrUnsupportedStreamURL, exactly when the lower-cased URL contains
\* neither "rtmp" nor "srt", hence never once the request passed validation.
C16_RtmpAppetizer ==
  /\ \A k \in 1..Len(plans) :
       urlContains(rtmp) =>
         /\ plans[k].out.err = "nil"
         /\ plans[k].out.recipe.Input =
              [URL |-> req.StreamURL \o <<"/">> \o req.StreamID,
               Format |-> "flv",
               Options |-> {<<"rtmp_live", live>>}]
  /\ (Appetizer(req).err # "nil") <=> ~(urlContains(rtmp) \/ urlContains(srt))
  /\ Appetizer(req).err \in {"nil", "ErrUnsupportedStreamURL"}
  /\ validated => Appetizer(req).err = "nil"
  /\ herr[2] # "ErrUnsupportedStreamURL" \/ herr[1] = "invalid request parameters"
  /\ \A k \in 1..Len(plans) : plans[k].out.err = "nil"

C16_Witness ==
  /\ Len(plans) = 1
  /\ urlContains(rtmp) /\ urlContains(srt)
  /\ plans[1].out.recipe.Input.Format = "flv"

\* C17: a recipe RecipeFor returns has the Appetizer of the request as its
\* input, the video task {bypass, h264, bitstream filter h264_mp4toannexb,
\* no stream filter} and the audio task {transcode, opus, stream filter
\* aresample=48000, options sample_rate=48000, bit_rate=128000,
\* sample_format=s16, no bitstream filter}.
C17_CanonicalRecipe ==
  \A k \in 1..Len(plans) :
    plans[k].out.err = "nil" =>
      /\ plans[k].out.recipe.Input = Appetizer(req).app
      /\ plans[k].out.recipe.Video =
           [Action |-> "bypass", Codec |-> "h264",
            DonutBitStreamFilter |-> "h264_mp4toannexb",
            DonutStreamFilter |-> "nil", CodecContextOptions |-> <<>>]
      /\ plans[k].out.recipe.Audio =
           [Action |-> "transcode", Codec |-> "opus",
            DonutBitStreamFilter |-> "nil",
            DonutStreamFilter |-> <<"aresample", 48000>>,
            CodecContextOptions |->
              << <<"sample_rate", 48000>>, <<"bit_rate", 128000>>,
                 <<"sample_format", "s16">> >>]
      /\ StreamRecipe(plans[k].out.recipe) = CanonicalRecipe

C17_Witness ==
  /\ Len(plans) >= 1
  /\ plans[1].out.err = "nil"
  /\ plans[1].out.recipe.Audio.Codec = "opus"
  /\ plans[1].out.recipe.Input.Format = "mpegts"

\* C18: when the server stream info has a video stream whose codec is not
\* H.264, RecipeFor returns an UnsupportedCodec error and no recipe.
C18_NonH264VideoRejected ==
  \A k \in 1..Len(plans) :
    (\E i \in 1..Len(plans[k].server) :
       plans[k].server[i].Type = "video" /\ plans[k].server[i].Codec # "h264")
      => (plans[k].out.err = "UnsupportedCodec" /\ plans[k].out.recipe = NoRecipe)

\* C19: when the client stream info has no receiver for the planned output
\* (H.264 video, Opus audio), RecipeFor fails with ErrMissingCompatibleStreams
\* and ServeHTTP starts no session.
C19_IncompatibleClientRejected ==
  \A k \in 1..Len(plans) :
    (\A i \in 1..Len(plans[k].client) :
       plans[k].client[i].Codec \notin {"h264", "opus"})
      => /\ plans[k].out.err = "ErrMissingCompatibleStreams"
         /\ "Setup" \notin SeqToSet(calls)
         /\ "Serve" \notin SeqToSet(calls)

setupDone ==
  /\ pc \notin {"prepareInput", "prepareOutput", "prepareFilters",
                "prepareBitStreamFilters"}
  /\ exit # "setup"

\* C21: after a successful setup and throughout the run loop, every
\* streamContext has an encoder context exactly when the task of its media
\* type has action transcode, and a bitstream-filter context exactly when
\* that task has a bitstream filter set.
C21_EncoderAndBsfPresence ==
  setupDone =>
    \A i \in DOMAIN streams :
      /\ streams[i].enc <=> (TaskOf(streams[i].media).action = "transcode")
      /\ streams[i].bsf <=> TaskOf(streams[i].media).bsf

C21_Witness ==
  /\ pc = "encReceive"
  /\ \E i, j \in DOMAIN streams :
       /\ streams[i].enc /\ ~streams[i].bsf
       /\ ~streams[j].enc /\ streams[j].bsf

\* Stream is inside applyBitStreamFilter or processPacket with the packet
\* it read
processing ==
  pc \in {"applyBitStreamFilter", "bsfReceive", "processPacket", "decReceive",
          "sinkGet", "encReceive"}

\* C22: once prepareInput has returned nil the stream table holds a
\* streamContext for exactly the audio and video input stream indices; a
\* packet whose stream index has no entry never reaches the bitstream
\* filter, the decoder, the filter graph or the encoder, and reading it
\* takes Stream back to the top of the loop with no sink or OnError callback.
C22_StreamTableAndSkip ==
  /\ []((pc # "prepareInput" /\ exit # "setup") =>
          DOMAIN streams = {i \in 1..Len(input) : input[i] \in {"audio", "video"}})
  /\ [](processing => inPkt.idx \in DOMAIN streams)
  /\ [][(pc = "ReadFrame" /\ pc' \notin {"ReadFrame", "returned"}
            /\ inPkt'.idx \notin DOMAIN streams)
          => /\ pc' = "select"
             /\ UNCHANGED <<errors, lastSink, framesAfterCancel, streams,
                            closer, allocated, released, exit>>]_vars

C22_Witness ==
  /\ pc = "select"
  /\ inPkt # NoPkt
  /\ input[inPkt.idx] = "data"
  /\ inPkt.idx \notin DOMAIN streams
  /\ DOMAIN streams # {}
  /\ lastSink # NoPkt

\* C23: the chain of one session is strictly sequential: at most one sink
\* callback is executing at a time, and while one is executing Stream reads
\* no packet and takes no other step of the chain.
C23_ChainSequential ==
  /\ [](sinkBusy <= 1)
  /\ [][sinkBusy > 0 =>
          \/ sinkBusy' < sinkBusy
          \/ UNCHANGED <<pc, inPkt, budget, lastSink, errors, released>>]_vars

C23_Witness ==
  /\ sinkBusy = 1
  /\ ctxErr = "none"
  /\ lastSink # NoPkt
  /\ inPkt.idx \in DOMAIN streams
  /\ streams[inPkt.idx].enc

\* the audio frames session s reported for its stream i, in order
reportsOf(s, i) ==
  SelectSeq(durLog, LAMBDA e : e.media = "audio" /\ e.sess = s /\ e.stream = i)

\* C24: the audio-duration state is tracked per audio stream: the samples
\* (and with them the duration) a session reports for a frame of an audio
\* stream follow from the DTS of that stream's own frames alone, starting
\* from a zero state, whatever other streams and other sessions on the same
\* streamer processed in between.
C24_AudioDurationPerStream ==
  \A s \in Sessions : \A i \in AudioStreams(s) :
    LET own == reportsOf(s, i)
    IN \A k \in 1..Len(own) :
         LET last == IF k = 1 THEN 0 ELSE own[k - 1].dts
             cur == IF k = 1 THEN 0 ELSE own[k - 1].samples
         IN own[k].samples = (IF own[k].dts > last THEN own[k].dts - last ELSE cur)

\* C29: audio duration follows the tracked-delta rule: for each audio
\* packet, a DTS above lastAudioFrameDTS (as it was when the call began)
\* makes currentAudioFrameSize their difference and any other DTS leaves it
\* as it was, lastAudioFrameDTS is the packet's DTS when the call returns,
\* and the duration reported is currentAudioFrameSize / sample rate seconds,
\* never negative.
C29_AudioDurationRule ==
  \A k \in 1..Len(durLog) :
    LET e == durLog[k]
    IN e.media = "audio" =>
         /\ e.samples = (IF e.dts > e.prevLast THEN e.dts - e.prevLast ELSE e.prevCur)
         /\ e.lastAfter = e.dts
         /\ e.samples >= 0
         /\ e.duration >= 0

\* C30: every video frame given to OnVideoFrame carries the duration
\* 1 / avg_frame_rate.num seconds of its input stream: a finite positive
\* duration, the same for every frame of the stream whatever its timestamps.
C30_VideoDuration ==
  \A k \in 1..Len(durLog) :
    LET e == durLog[k]
    IN e.media = "video" =>
         /\ e.duration > 0
         /\ e.duration < MaxDuration
         /\ e.duration * e.rate <= 1000000000
         /\ (e.duration + 1) * e.rate > 1000000000
         /\ \A j \in 1..Len(durLog) :
              (durLog[j].media = "video" /\ durLog[j].sess = e.sess)
                => durLog[j].duration = e.duration

\* C25: for every Appetizer the prober opens the input with the URL, the
\* format and the option dictionary the streamer opens it with (for SRT:
\* the URL bound to 0.0.0.0 when it has a port, and mode=listener); its
\* result holds the audio and video streams of the input in input order and
\* no other stream; and on every return it has released, once each and in
\* reverse order, everything it allocated, the opened input included.
C25_ProberOpensAsStreamer ==
  /\ \A i, j \in 1..Len(opens) :
       (opens[i].by = "prober" /\ opens[j].by = "streamer")
         => /\ opens[i].url = opens[j].url
            /\ opens[i].format = opens[j].format
            /\ opens[i].options = opens[j].options
            /\ (\E k \in 1..(Len(opens[j].url) - 5) :
                  \A c \in 1..6 : lowerOf(opens[j].url[k + c - 1]) = srtScheme[c])
                 => <<"mode", listener>> \in opens[i].options
  /\ (probe.pc = "returned" /\ probe.err = "nil") =>
       /\ \A k \in 1..Len(probe.result) :
            /\ input[probe.result[k].Index] \in {"audio", "video"}
            /\ probe.result[k].Type = input[probe.result[k].Index]
            /\ k > 1 => probe.result[k - 1].Index < probe.result[k].Index
       /\ \A i \in 1..Len(input) :
            input[i] \in {"audio", "video"}
              => \E k \in 1..Len(probe.result) : probe.result[k].Index = i
  /\ probe.pc = "returned" =>
       /\ probe.released = Reverse(probe.allocated)
       /\ probe.closer = probe.allocated
       /\ (probe.err = "nil" => <<"openedInput", 0>> \in SeqToSet(probe.released))

C25_Witness ==
  /\ probe.pc = "returned"
  /\ probe.err = "nil"
  /\ Len(opens) = 2
  /\ opens[1].url = bindAll \o <<"9">>
  /\ opens[1].url # Appetizer(req).app.URL
  /\ <<"mode", listener>> \in opens[2].options
  /\ Len(probe.result) < Len(input)
  /\ Len(probe.result) = 1

\* C26 as stated: every error ServeHTTP returns is answered with status 500
\* and the error's text, the 201 with the SDP answer is written before any
\* frame is given to a sink, and nothing changes the response afterwards.
C26_EveryErrorIs500 ==
  /\ []((response.handled /\ herr[1] # "nil") =>
          (response.status = 500 /\ response.body = herr))
  /\ []((lastSink # NoPkt /\ herr[1] = "nil") => response.status = 201)
  /\ [][response.status # 0 =>
          (response'.status = response.status /\ response'.body = response.body)]_vars

\* C26: an error ServeHTTP returns before it wrote the header is answered
\* with status 500 and the error's text; a successful setup writes status
\* 201 with the SDP answer without waiting for the session, which is already
\* started, and the error of a failed write of the answer leaves the status
\* at 201; a response once written is changed neither by that error nor by
\* anything the session does or reports later.
C26_ErrorBeforeHeaderIs500 ==
  /\ []((response.handled /\ herr[1] \notin {"nil", "failed to write SDP answer"}) =>
          (response.status = 500 /\ response.body = herr))
  /\ []((response.handled /\ herr[1] = "failed to write SDP answer") =>
          response.status = 201)
  /\ []((hpc = "wait" \/ (hpc = "returned" /\ herr[1] = "nil")) =>
          (response.status = 201 /\ response.body = <<"answer", "">>))
  /\ [][(hpc = "respond" /\ hpc' # hpc) =>
          (response'.status = 201 /\ UNCHANGED <<pc, lastSink, errors, done>>)]_vars
  /\ [][response.status # 0 =>
          (response'.status = response.status /\ response'.body = response.body)]_vars

C26_Witness ==
  /\ response.handled
  /\ response.status = 201
  /\ herr[1] = "nil"
  /\ done
  /\ lastSink # NoPkt
  /\ pc = "returned"
  /\ errors # <<>>

\* C27: for every transcoded stream, audio as well as video, each option of
\* the task's codec_options is applied to the encoder context after the
\* defaults taken from the decoder and before the encoder is opened: the
\* opened context has, for every field an option sets, the value of the
\* last option that sets it.
C27_CodecOptionsApplied ==
  \A k \in 1..Len(encoders) :
    LET e == encoders[k]
        opts == e.task.CodecContextOptions
    IN \A i \in 1..Len(opts) :
         (\A j \in (i + 1)..Len(opts) : opts[j][1] # opts[i][1])
           => e.ctx[opts[i][1]] = opts[i][2]

\* C28: when the read loop ends by end of input or by cancellation, a
\* session with a stream that has an encoder or a bitstream filter does not
\* go from reading straight to the release of its resources: a draining
\* step, in which they are flushed, lies in between.
C28_DrainBeforeRelease ==
  [][(pc' = "returned" /\ pc # "returned"
        /\ (exit' = "ctx" \/ (exit' \in ReadErrors /\ isCleanReadError(exit')))
        /\ \E i \in DOMAIN streams : streams[i].enc \/ streams[i].bsf)
       => pc \notin {"select", "ReadFrame"}]_vars

\* C31: the timestamps a sink receives are the packet's, rescaled: for a
\* transcoded packet with timestamp D, input time base I and encoder time
\* base E, the nearest integer to D * I.num * E.den / (I.den * E.num), a tie
\* going away from zero; for a bypassed packet D itself.
C31_RescaledTimestamps ==
  \A k \in 1..Len(frames) :
    LET f == frames[k]
        I == f.stream.inTB
        E == f.stream.encTB
        m == I[2] * E[1]
        nearest(D, r) ==
          LET n == D * I[1] * E[2]
              absn == IF n < 0 THEN -n ELSE n
              absr == IF r < 0 THEN -r ELSE r
          IN /\ (r > 0 => n > 0) /\ (r < 0 => n < 0)
             /\ 2 * m * absr <= 2 * absn + m
             /\ 2 * m * absr > 2 * absn - m
    IN IF f.action = "bypass"
       THEN f.DTS = f.pkt.dts /\ f.PTS = f.pkt.pts
       ELSE nearest(f.pkt.dts, f.DTS) /\ nearest(f.pkt.pts, f.PTS)

C31_Witness ==
  /\ Len(frames) = 2
  /\ frames[1].action = "transcode"
  /\ frames[1].stream.inTB = <<1, 2>> /\ frames[1].stream.encTB = <<1, 1>>
  /\ frames[1].pkt.dts = -3 /\ frames[1].DTS = -2
  /\ frames[1].pkt.pts = -2 /\ frames[1].PTS = -1
  /\ frames[2].action = "transcode"
  /\ frames[2].stream.inTB = <<1, 3>> /\ frames[2].stream.encTB = <<1, 1>>
  /\ frames[2].pkt.dts = 1 /\ frames[2].DTS = 0
  /\ frames[2].pkt.pts = 2 /\ frames[2].PTS = 1

\* C32: with an audio task of action bypass, a packet of an audio stream is
\* processed without failure: handing it to OnAudioFrame never panics, so
\* the session goes on to its next packet.
C32_AudioBypassCompletes == recipe.audio.action = "bypass" => ~crashed

\* C33: a frame goes to the sink of its stream's media type, OnVideoFrame for
\* a video stream and OnAudioFrame for an audio stream; what a transcoded
\* stream hands over is an RTP packet with version 2, sequence number 0,
\* SSRC 0, payload type 96 (video) or 111 (audio) and the encoded packet as
\* payload.
C33_RoutingAndRtpHeader ==
  \A k \in 1..Len(frames) :
    LET f == frames[k]
    IN /\ f.stream.media = "video" => f.sink = "OnVideoFrame"
       /\ f.stream.media = "audio" => f.sink = "OnAudioFrame"
       /\ f.action = "transcode" =>
            /\ f.data.Version = 2
            /\ f.data.SequenceNumber = 0
            /\ f.data.SSRC = 0
            /\ f.data.PayloadType = (IF f.stream.media = "video" THEN 96 ELSE 111)
            /\ f.data.Payload = f.pkt.data

C33_Witness ==
  /\ Len(frames) = 2
  /\ frames[1].sink = "OnVideoFrame" /\ frames[1].action = "transcode"
  /\ frames[1].data.PayloadType = 96
  /\ frames[2].sink = "OnAudioFrame" /\ frames[2].action = "transcode"
  /\ frames[2].data.PayloadType = 111

\* C34: the input packet is unreferenced at the end of every iteration that
\* read a packet, the iterations whose packet belongs to no stream of the
\* table included: whenever Stream is about to read, the packet holds
\* nothing.
C34_InPktUnrefBeforeRead == pc = "ReadFrame" => inPkt = NoPkt

\* C35: every input of a valid request that the Appetizer describes as SRT
\* (format mpegts) is opened, by the prober and by the streamer, at a URL
\* bound to srt://0.0.0.0:<port> and with the option mode=listener.
C35_SrtOpenedAsListener ==
  \A k \in 1..Len(opens) :
    (Valid(req) = "nil" /\ opens[k].format = "mpegts") =>
      /\ Len(opens[k].url) > Len(bindAll)
      /\ SubSeq(opens[k].url, 1, Len(bindAll)) = bindAll
      /\ \A c \in (Len(bindAll) + 1)..Len(opens[k].url) :
           opens[k].url[c] \notin {"?", "/", ":"}
      /\ <<"mode", listener>> \in opens[k].options

\* the positions of Stream before the run loop, in program order
setupStages ==
  <<"prepareInput", "prepareOutput", "prepareFilters",
    "prepareBitStreamFilters", "allocInPkt">>

inSetup(p) == \E k \in 1..5 : p = setupStages[k]

\* the errors a stage can return
failures(ops) == {ops[k].err : k \in {j \in 1..Len(ops) : ops[j].op = "fail"}}

failuresOf(p) ==
  CASE p = "prepareInput" -> failures(prepareInputOps)
    [] p = "prepareOutput" -> failures(prepareOutputOps)
    [] p = "prepareFilters" ->
         UNION {failures(prepareFiltersOps(ord)) : ord \in Perms(DOMAIN streams)}
    [] p = "prepareBitStreamFilters" ->
         UNION {failures(prepareBitStreamFiltersOps(ord)) :
                  ord \in Perms(DOMAIN streams)}
    [] OTHER -> {}

\* C36: setup runs prepareInput, prepareOutput, prepareFilters and
\* prepareBitStreamFilters in that order and the run loop begins only after
\* the fourth; when a stage fails Stream returns from it: no later stage and
\* no read follow, no frame has reached a sink, OnError (when set) has been
\* invoked once, with an error of that stage, and everything registered with
\* the closer so far has been released.
C36_SetupInOrderAndAbort ==
  /\ [](inSetup(pc) =>
          (errors = <<>> /\ exit = "none" /\ inPkt = NoPkt /\ lastSink = NoPkt))
  /\ [][pc' # pc =>
          /\ \A k \in 1..4 :
               pc = setupStages[k] => pc' \in {setupStages[k + 1], "returned"}
          /\ inSetup(pc') => inSetup(pc)
          /\ (~inSetup(pc') /\ pc' # "returned") => (~inSetup(pc) \/ pc = "allocInPkt")
          /\ pc # "returned"]_vars
  /\ [][(exit' = "setup" /\ exit # "setup") =>
          /\ inSetup(pc) /\ pc' = "returned"
          /\ inPkt' = NoPkt /\ lastSink' = NoPkt
          /\ released' = Reverse(closer')
          /\ IF cb.OnError
             THEN Len(errors') = 1 /\ errors'[1] \in failuresOf(pc)
             ELSE errors' = <<>>]_vars

C36_Witness ==
  /\ returned /\ exit = "setup"
  /\ errors = <<"error while initiating">>
  /\ \E i \in 1..Len(input) : <<"decCodecContext", i>> \in SeqToSet(released)
  /\ \E i \in 1..Len(input) : <<"encPkt", i>> \in SeqToSet(released)
  /\ released = Reverse(closer)

\* C37: the channel done is closed at most once, each close finding it
\* open, and it is closed at the first of the two events that end a WHEP
\* session, the client's disconnect and the end of the stream: once Stream
\* has returned the handler waiting on done is released.
C37_DoneClosedOnceAtFirstEvent ==
  /\ [][done' # done => (~done /\ done')]_vars
  /\ []((pc = "returned" /\ hpc = "wait") => done)

\* C38: the built-in prober and streamer match a request exactly when its
\* lower-cased stream URL contains "rtmp" or "srt", the URL test of request
\* validation: a validated request is matched by both, and with both
\* registered EngineFor does not fail for it.
C38_BuiltInMatchIsUrlTest ==
  LET libav(reg) == {k \in 1..Len(reg) : reg[k].impl = "libav"}
  IN /\ \A k \in libav(probers) : Match(probers[k], req) <=> urlSupported
     /\ \A k \in libav(streamers) : Match(streamers[k], req) <=> urlSupported
     /\ (Valid(req) = "nil" /\ libav(probers) # {} /\ libav(streamers) # {})
          => /\ EngineFor(req).err = "nil"
             /\ herr[1] # "failed to create DonutEngine"

C38_Witness ==
  /\ req.StreamURL = <<"h", "/", "s", "r", "t">>
  /\ Valid(req) = "nil"
  /\ Len(probers) = 2 /\ probers[1].impl = "other" /\ probers[2].impl = "libav"
  /\ Len(streamers) = 1 /\ streamers[1].impl = "libav"
  /\ "EngineFor" \in SeqToSet(calls)
  /\ engine # <<>>

\* C39: Stream invokes no callback that is nil: OnStream, OnError and the
\* sink of a media type are invoked only when set, and nothing panics; a
\* packet whose sink is nil is dropped, the step that would have handed it
\* over reporting no error of its own and the loop going on.
C39_NilCallbacksNeverInvoked ==
  /\ [](~cb.OnStream => onStreamLog = <<>>)
  /\ [](~cb.OnError => errors = <<>>)
  /\ [](lastSink # NoPkt =>
          /\ input[lastSink.idx] = "video" => cb.OnVideoFrame
          /\ input[lastSink.idx] = "audio" => cb.OnAudioFrame)
  /\ [](exit # "panic")
  /\ [][(/\ pc \in {"processPacket", "encReceive"}
         /\ input[inPkt.idx] = "video" => ~cb.OnVideoFrame
         /\ input[inPkt.idx] = "audio" => ~cb.OnAudioFrame)
          => /\ lastSink' = lastSink
             /\ "sink failed" \notin SeqToSet(errors')
             /\ "failed to marshal RTP packet" \notin SeqToSet(errors')]_vars

C39_Witness ==
  /\ ~cb.OnStream /\ ~cb.OnVideoFrame /\ ~cb.OnAudioFrame /\ ~cb.OnError
  /\ pc = "encReceive" /\ budget = MaxOut - 3
  /\ lastSink = NoPkt /\ errors = <<>> /\ onStreamLog = <<>>

=============================================================================
